---------------------------- MODULE Spec2Model ----------------------------
(***************************************************************************)
(* Model of the sequence construction and batching pipeline of mathGPT     *)
(* (loading.py): tokenize_sequence, split_sequence, Collator.__call__ and  *)
(* trim_batch.                                                             *)
(*                                                                         *)
(* Python lists and tensors are TLA+ sequences (index i of the code is     *)
(* index i + 1 here), dicts are records, None is the empty tuple.          *)
(***************************************************************************)
EXTENDS Integers, Sequences, FiniteSets, TLC

VARIABLES
    pc,                     \* position of the running operation
    options,                \* TrainOptions
    text,                   \* tokenize_sequence: the raw text (words and placeholders)
    formulas,               \* tokenize_sequence: the formula map, str(index) -> Formula
    text_chunks,            \* tokenize_sequence: text.split(FORMULA_IDENTIFIER)
    text_chunk_idx,         \* tokenize_sequence: loop index
    sequence,               \* tokenize_sequence: the Sequence being built
    num_missing_formulas,   \* tokenize_sequence: counter of skipped formulas
    max_seq_len,            \* the length budget handed to split_sequence
    data,                   \* Dataset.data: the stored sub-sequences
    task,                   \* Collator.task
    seq_batch,              \* Collator.__call__: the list of Sequences to collate
    batch,                  \* the CollatedBatch handed to trim_batch
    sub_seq_batch,          \* the CollatedBatch trim_batch returned
    trims,                  \* the (trim_start, trim_end) of the calls so far
    trimmed_sequences,      \* Dataset.trimmed_sequences
    sample,                 \* the sample a dataset constructor is working on
    int_seqs,               \* GenTaskDataset: the intermediate sequences of the sample
    label_seqs,             \* GenTaskDataset: the label sequences of the sample
    pid_to_seq,             \* FeedbackDataset: problem id -> problem Sequence
    problems,               \* AnswerScoringDataset.problems
    example_bank,           \* AnswerScoringDataset.example_bank
    scaffold,               \* AnswerScoringDataset: the static sequences
    index,                  \* __getitem__: the index asked for
    initial_examples,       \* __getitem__: one example per grade, shuffled
    additional_examples,    \* __getitem__: the other sampled examples, shuffled
    example_sequences,      \* __getitem__: the example blocks that fit
    returned,               \* __getitem__: the Sequence returned
    prev_pos_vecs,          \* infer_math_pos: the previous tokens' position vectors
    prev_pos_levels,        \* infer_math_pos: the previous tokens' levels
    prev_token_types,       \* infer_math_pos: the previous tokens' types
    new_pos,                \* infer_math_pos: (new_pos_vecs, new_pos_levels) returned
    stride,                 \* evaluate_lm: the stride
    sequence_length,        \* evaluate_lm: the length of the sequence being scored
    split_point,            \* evaluate_lm: the loop variable
    labels,                 \* evaluate_lm: the targets of the current window
    nlls,                   \* evaluate_lm: one entry per window scored
    post_split,             \* split_sequence: the argument of the call in progress
    recursion_depth         \* split_sequence: the recursive calls made so far

\* the state of dataset construction
buildVars == <<text, formulas, text_chunks, text_chunk_idx, sequence,
               num_missing_formulas, max_seq_len, data>>

\* the state of collation and trimming
batchVars == <<task, seq_batch, batch, sub_seq_batch, trims>>

\* the state of the task datasets
datasetVars == <<trimmed_sequences, sample, int_seqs, label_seqs, pid_to_seq, problems,
                 example_bank, scaffold, index, initial_examples, additional_examples,
                 example_sequences, returned>>

\* the state of position inference
inferVars == <<prev_pos_vecs, prev_pos_levels, prev_token_types, new_pos>>

\* the state of the perplexity evaluation
evalVars == <<stride, sequence_length, split_point, labels, nlls>>

\* the state of a split in progress
splitVars == <<post_split, recursion_depth>>

\* what dataset construction for pretraining and collation leave alone
taskVars == <<datasetVars, inferVars, evalVars, splitVars>>

vars == <<pc, options, buildVars, batchVars, taskVars>>

-----------------------------------------------------------------------------
(* Bounds of the model *)

\* longest raw text, in items (a word or one placeholder occurrence)
MaxTextLen == 4
\* most placeholder occurrences in one text
MaxPlaceholders == 2
\* largest max_seq_len handed to split_sequence
MaxSplitLen == 7
\* longest sequence of a collated batch
MaxSeqLen == 3
\* most sequences in a collated batch
MaxBatch == 2

-----------------------------------------------------------------------------
(* Python and library primitives *)

None == <<>>

Min(a, b) == IF a <= b THEN a ELSE b

Max(a, b) == IF a >= b THEN a ELSE b

\* list[a:b] with Python's rules: a negative bound counts from the end, and
\* both bounds are clamped to the list
SliceBound(i, n) == IF i < 0 THEN Max(i + n, 0) ELSE Min(i, n)

PySlice(list, a, b) ==
    SubSeq(list, SliceBound(a, Len(list)) + 1, SliceBound(b, Len(list)))

\* mutant: only None counts as not found
PyNot_NoneOnly(x) == x = None

\* `not x` for x the result of next((i for i in ... if ...), None): <<i>> for
\* the first match i, None when there is none. Python's `not` is true of None
\* and of the integer 0.
PyNot(x) == x = None \/ x[1] = 0

\* str(i) for the small non-negative ints the model uses
Digits == <<"0", "1", "2", "3", "4", "5", "6", "7", "8", "9">>

str(i) == Digits[i + 1]

-----------------------------------------------------------------------------
(* constants.py *)

TEXT == "TEXT"
START_FORMULA == "START_FORMULA"
END_FORMULA == "END_FORMULA"
OP == "OP"
VAR == "VAR"
NUM == "NUM"
END == "END"

TokenType == {TEXT, START_FORMULA, END_FORMULA, OP, VAR, NUM, END}

FORMULA_IDENTIFIER == "[F]"

PADDING_TOKEN_ID == -100

\* TPE: the tree-position-encoding modes, "none" and one that encodes
TPE_NONE == "none"
TPE_FORTE == "forte"

\* the words raw text is made of, besides the placeholder
Words == {"a", "b"}

\* text_tokenizer()(chunk)["input_ids"]: the subword ids of a chunk of words.
\* The formula delimiters of baseline mode take three subwords each
\* (loading.py indexes them as token_ids[idx : idx + 3]).
InputIds(word) ==
    CASE word = "a" -> <<11>>
      [] word = "b" -> <<12>>
      [] word = "x" -> <<13>>
      [] word = "y" -> <<14>>
      [] word = "<m>" -> <<1, 2, 3>>
      [] word = "</m>" -> <<1, 4, 3>>
      [] word = "Question:" -> <<21>>
      [] word = "[SEP]" -> <<22>>
      [] word = "[CLS]" -> <<23>>
      [] word = "Possible" -> <<24>>
      [] word = "scores:" -> <<25>>
      [] word = "Example:" -> <<26>>
      [] word = "Score" -> <<27>>
      [] word = "this" -> <<28>>
      [] word = "answer:" -> <<29>>
      [] word = "Score:" -> <<30>>
      [] word = "Wrong" -> <<31>>
      [] word = "Poor" -> <<32>>
      [] word = "Fair" -> <<33>>
      [] word = "Good" -> <<34>>
      [] word = "Excellent" -> <<35>>
      [] word = "Summary:" -> <<36>>
      [] word = "Answer:" -> <<37>>
      [] word = "Feedback:" -> <<38>>
      [] word = "<eos>" -> <<39>>

RECURSIVE text_tokenizer(_)
text_tokenizer(chunk) ==
    IF chunk = <<>> THEN <<>>
    ELSE InputIds(Head(chunk)) \o text_tokenizer(Tail(chunk))

\* str.split(sep): the maximal runs between occurrences of sep, N + 1 chunks
\* for N occurrences
RECURSIVE str_split(_, _)
str_split(s, sep) ==
    IF \A i \in 1..Len(s) : s[i] # sep THEN <<s>>
    ELSE LET k == CHOOSE i \in 1..Len(s) :
                    s[i] = sep /\ \A j \in 1..(i - 1) : s[j] # sep
         IN  <<SubSeq(s, 1, k - 1)>> \o str_split(SubSeq(s, k + 1, Len(s)), sep)

-----------------------------------------------------------------------------
(* data_types.py: Sequence *)

EMPTY_POS_VECTOR == <<0, 0, 0>>

Sequence(name) ==
    [name |-> name, token_ids |-> <<>>, token_types |-> <<>>, pos_vecs |-> <<>>,
     pos_levels |-> <<>>, gpt_tokens |-> <<>>, meta |-> None]

SeqLen(seq) == Len(seq.token_ids)

\* Sequence.split_at(idx): (seq[:idx], seq[idx:]) on every channel
split_at(seq, idx) ==
    LET part(a, b) ==
            [seq EXCEPT !.token_ids = PySlice(@, a, b),
                        !.token_types = PySlice(@, a, b),
                        !.pos_vecs = PySlice(@, a, b),
                        !.pos_levels = PySlice(@, a, b),
                        !.gpt_tokens = PySlice(@, a, b)]
    IN  <<part(0, idx), part(idx, SeqLen(seq))>>

\* Sequence.__add__: a new Sequence, the channels of the operands appended;
\* the callers assign meta afterwards
Concat(a, b) ==
    [name |-> a.name,
     token_ids |-> a.token_ids \o b.token_ids,
     token_types |-> a.token_types \o b.token_types,
     pos_vecs |-> a.pos_vecs \o b.pos_vecs,
     pos_levels |-> a.pos_levels \o b.pos_levels,
     gpt_tokens |-> a.gpt_tokens \o b.gpt_tokens,
     meta |-> None]

-----------------------------------------------------------------------------
(* math_tokenize.py: tokenize_formula *)

\* An OPT node is [type, symbol, children]. The run is the depth-first
\* traversal: a leaf gives one token, an operator gives its token, its
\* children's runs and an END token as its last child. pos_vec[level] is the
\* sibling index of the token's ancestor at that level, pos_level its depth.
FormulaToken(id, type, pos_vec, level, gpt) ==
    [token_id |-> id, token_type |-> type, pos_vec |-> pos_vec,
     pos_level |-> level, gpt_tokens |-> gpt]

GptTokens(node) ==
    IF node.type = OP THEN <<node.symbol, node.symbol>> ELSE <<node.symbol>>

RECURSIVE tokenize_formula_rec(_, _, _)
RECURSIVE tokenize_children(_, _, _, _)

tokenize_formula_rec(node, pos_vec, level) ==
    LET tok == FormulaToken(node.symbol, node.type, pos_vec, level, GptTokens(node))
    IN  IF node.type = OP
        THEN <<tok>> \o tokenize_children(node.children, 0, pos_vec, level + 1)
        ELSE <<tok>>

tokenize_children(children, j, pos_vec, level) ==
    LET child_pos == [pos_vec EXCEPT ![level + 1] = j]
    IN  IF j = Len(children)
        THEN <<FormulaToken(0, END, child_pos, level, <<>>)>>
        ELSE tokenize_formula_rec(children[j + 1], child_pos, level)
                \o tokenize_children(children, j + 1, pos_vec, level)

tokenize_formula(opt, opts) ==
    LET run == tokenize_formula_rec(opt, EMPTY_POS_VECTOR, 0)
        n == Len(run)
    IN  [token_ids |-> [i \in 1..n |-> run[i].token_id],
         token_types |-> [i \in 1..n |-> run[i].token_type],
         pos_vecs |-> [i \in 1..n |-> run[i].pos_vec],
         pos_levels |-> [i \in 1..n |-> run[i].pos_level],
         gpt_tokens |-> IF opts.shared_emb
                        THEN [i \in 1..n |-> run[i].gpt_tokens] ELSE <<>>]

\* decode.py: decode_formula renders a token run back to words
decode_formula(token_ids, token_types) ==
    LET kept == SelectSeq([i \in 1..Len(token_ids) |-> i],
                          LAMBDA i : token_types[i] # END)
    IN  [i \in 1..Len(kept) |-> IF token_types[kept[i]] = OP THEN "y" ELSE "x"]

-----------------------------------------------------------------------------
(* loading.py: split_sequence *)

\* mutant: the end of a formula is taken for a place to cut as well
SplitPointIsText_OrFormulaEnd(seq, max_len) ==
    seq.token_types[max_len + 1] \in {TEXT, END_FORMULA}

\* line 29: the token at the split point is a text token
SplitPointIsText(seq, max_len) == seq.token_types[max_len + 1] = TEXT

\* line 34: the last text token before the split point, scanning
\* range(max_seq_len - 1, -1, -1)
PreFormTextTokId(seq, max_len) ==
    LET found == {i \in 0..(max_len - 1) : seq.token_types[i + 1] = TEXT}
    IN  IF found = {} THEN None
        ELSE <<CHOOSE i \in found : \A j \in found : j <= i>>

\* line 38: the first text token at or after the split point, scanning
\* range(max_seq_len, seq_len)
EndOfForm(seq, max_len) ==
    LET found == {i \in max_len..(SeqLen(seq) - 1) : seq.token_types[i + 1] = TEXT}
    IN  IF found = {} THEN None
        ELSE <<CHOOSE i \in found : \A j \in found : i <= j>>

\* mutant: the sequence that fits is cut at its end all the same
ReturnWhole_TrailingEmpty(seq) ==
    LET parts == split_at(seq, SeqLen(seq)) IN <<parts[1], parts[2]>>

\* line 26: the sequence fits and is returned as it is
ReturnWhole(seq) == <<seq>>

\* mutant: the cut is made one token late
TextBoundaryCut_Late(seq, max_len) == split_at(seq, max_len + 1)

\* line 30: cut at the split point
TextBoundaryCut(seq, max_len) == split_at(seq, max_len)

\* line 46: cut right after the last text token before the formula
PreFormulaCut(seq, pre_form_text_tok_id) == split_at(seq, pre_form_text_tok_id + 1)

RECURSIVE split_sequence(_, _)
split_sequence(seq, max_len) ==
    IF SeqLen(seq) <= max_len THEN ReturnWhole(seq)
    ELSE IF SplitPointIsText(seq, max_len)
    THEN LET parts == TextBoundaryCut(seq, max_len)
         IN  <<parts[1]>> \o split_sequence(parts[2], max_len)
    ELSE LET pre_form_text_tok_id == PreFormTextTokId(seq, max_len)
         IN  IF PyNot(pre_form_text_tok_id)
             THEN LET end_of_form == EndOfForm(seq, max_len)
                  IN  IF PyNot(end_of_form) THEN <<>>
                      ELSE split_sequence(split_at(seq, end_of_form[1])[2], max_len)
             ELSE LET parts == PreFormulaCut(seq, pre_form_text_tok_id[1])
                  IN  <<parts[1]>> \o split_sequence(parts[2], max_len)

-----------------------------------------------------------------------------
(* loading.py: tokenize_sequence, one action per append step of its loop *)

\* lines 56-61, 83-88: text tokens carry the empty position
AppendText(seq, ids) ==
    LET n == Len(ids)
    IN  [seq EXCEPT !.token_ids = @ \o ids,
                    !.token_types = @ \o [i \in 1..n |-> TEXT],
                    !.pos_vecs = @ \o [i \in 1..n |-> EMPTY_POS_VECTOR],
                    !.pos_levels = @ \o [i \in 1..n |-> 0],
                    !.gpt_tokens = IF options.shared_emb
                                   THEN @ \o [i \in 1..n |-> <<>>] ELSE @]

\* mutant: the marker's level is not appended
AppendMarker_NoLevel(seq, type) ==
    [seq EXCEPT !.token_ids = Append(@, 0),
                !.token_types = Append(@, type),
                !.pos_vecs = Append(@, EMPTY_POS_VECTOR),
                !.gpt_tokens = IF options.shared_emb THEN Append(@, <<>>) ELSE @]

\* lines 91-96, 108-113: a structural marker has token id 0
AppendMarker(seq, type) ==
    [seq EXCEPT !.token_ids = Append(@, 0),
                !.token_types = Append(@, type),
                !.pos_vecs = Append(@, EMPTY_POS_VECTOR),
                !.pos_levels = Append(@, 0),
                !.gpt_tokens = IF options.shared_emb THEN Append(@, <<>>) ELSE @]

\* mutant: the key counts the formulas found so far, not the placeholders
FormulaKey_Shifted(idx) == str(idx - num_missing_formulas)

\* lines 100-105: the formula tokenizer's run, channel by channel
AppendFormula(seq, formula_sequence) ==
    [seq EXCEPT !.token_ids = @ \o formula_sequence.token_ids,
                !.token_types = @ \o formula_sequence.token_types,
                !.pos_vecs = @ \o formula_sequence.pos_vecs,
                !.pos_levels = @ \o formula_sequence.pos_levels,
                !.gpt_tokens = IF options.shared_emb
                               THEN @ \o formula_sequence.gpt_tokens ELSE @]

\* line 68, 73: the key a placeholder occurrence is looked up under
FormulaKey(idx) == str(idx)

\* lines 50-52
TokenizeSequence ==
    /\ pc = "start"
    /\ sequence' = Sequence("")
    /\ text_chunks' = str_split(text, FORMULA_IDENTIFIER)
    /\ num_missing_formulas' = 0
    /\ text_chunk_idx' = 0
    /\ pc' = "chunk"
    /\ UNCHANGED <<batchVars, taskVars, options, text, formulas, max_seq_len, data>>

\* lines 53-61
AppendTextChunk ==
    /\ pc = "chunk"
    /\ sequence' = AppendText(sequence, text_tokenizer(text_chunks[text_chunk_idx + 1]))
    /\ pc' = "formula"
    /\ UNCHANGED <<batchVars, taskVars, options, text, formulas, text_chunks, text_chunk_idx,
                   num_missing_formulas, max_seq_len, data>>

\* lines 64-65, 115: the last chunk ends the loop and the function returns
ReturnSequence ==
    /\ pc = "formula"
    /\ text_chunk_idx = Len(text_chunks) - 1
    /\ pc' = "returned"
    /\ UNCHANGED <<batchVars, taskVars, options, text, formulas, text_chunks, text_chunk_idx, sequence,
                   num_missing_formulas, max_seq_len, data>>

\* lines 68-70
SkipMissingFormula ==
    /\ pc = "formula"
    /\ text_chunk_idx # Len(text_chunks) - 1
    /\ FormulaKey(text_chunk_idx) \notin DOMAIN formulas
    /\ num_missing_formulas' = num_missing_formulas + 1
    /\ text_chunk_idx' = text_chunk_idx + 1
    /\ pc' = "chunk"
    /\ UNCHANGED <<batchVars, taskVars, options, text, formulas, text_chunks, sequence, max_seq_len, data>>

\* lines 73-88
AppendBaselineFormula ==
    /\ pc = "formula"
    /\ text_chunk_idx # Len(text_chunks) - 1
    /\ FormulaKey(text_chunk_idx) \in DOMAIN formulas
    /\ options.baseline
    /\ LET formula == formulas[FormulaKey(text_chunk_idx)]
           formula_sequence == tokenize_formula(formula.opt, options)
           formula_text ==
               <<"<m>">> \o (IF options.post_proc
                             THEN decode_formula(formula_sequence.token_ids,
                                                 formula_sequence.token_types)
                             ELSE formula.tex) \o <<"</m>">>
       IN  sequence' = AppendText(sequence, text_tokenizer(formula_text))
    /\ text_chunk_idx' = text_chunk_idx + 1
    /\ pc' = "chunk"
    /\ UNCHANGED <<batchVars, taskVars, options, text, formulas, text_chunks, num_missing_formulas,
                   max_seq_len, data>>

\* lines 73-74, 89-96
AppendStartFormula ==
    /\ pc = "formula"
    /\ text_chunk_idx # Len(text_chunks) - 1
    /\ FormulaKey(text_chunk_idx) \in DOMAIN formulas
    /\ ~options.baseline
    /\ sequence' = AppendMarker(sequence, START_FORMULA)
    /\ pc' = "form_run"
    /\ UNCHANGED <<batchVars, taskVars, options, text, formulas, text_chunks, text_chunk_idx,
                   num_missing_formulas, max_seq_len, data>>

\* lines 98-105
AppendFormulaRun ==
    /\ pc = "form_run"
    /\ sequence' = AppendFormula(sequence,
                    tokenize_formula(formulas[FormulaKey(text_chunk_idx)].opt, options))
    /\ pc' = "form_end"
    /\ UNCHANGED <<batchVars, taskVars, options, text, formulas, text_chunks, text_chunk_idx,
                   num_missing_formulas, max_seq_len, data>>

\* mutant: the formula is closed with the marker that opens it
AppendEndFormula_StartMarker ==
    /\ pc = "form_end"
    /\ sequence' = AppendMarker(sequence, START_FORMULA)
    /\ text_chunk_idx' = text_chunk_idx + 1
    /\ pc' = "chunk"
    /\ UNCHANGED <<batchVars, taskVars, options, text, formulas, text_chunks,
                   num_missing_formulas, max_seq_len, data>>

\* lines 107-113, then the next iteration of the loop
AppendEndFormula ==
    /\ pc = "form_end"
    /\ sequence' = AppendMarker(sequence, END_FORMULA)
    /\ text_chunk_idx' = text_chunk_idx + 1
    /\ pc' = "chunk"
    /\ UNCHANGED <<batchVars, taskVars, options, text, formulas, text_chunks, num_missing_formulas,
                   max_seq_len, data>>

\* lines 49-115 as one call, for the constructors of the task datasets:
\* the loop from chunk idx on, giving (sequence, num_missing_formulas)
RECURSIVE tokenize_from(_, _, _, _)
tokenize_from(seq, chunks, forms, idx) ==
    LET with_text == AppendText(seq, text_tokenizer(chunks[idx + 1]))
    IN  IF idx = Len(chunks) - 1 THEN <<with_text, 0>>
        ELSE IF FormulaKey(idx) \notin DOMAIN forms
        THEN LET rest == tokenize_from(with_text, chunks, forms, idx + 1)
             IN  <<rest[1], rest[2] + 1>>
        ELSE LET formula == forms[FormulaKey(idx)]
                 formula_sequence == tokenize_formula(formula.opt, options)
                 formula_text ==
                     <<"<m>">> \o (IF options.post_proc
                                   THEN decode_formula(formula_sequence.token_ids,
                                                       formula_sequence.token_types)
                                   ELSE formula.tex) \o <<"</m>">>
                 with_formula ==
                     IF options.baseline
                     THEN AppendText(with_text, text_tokenizer(formula_text))
                     ELSE AppendMarker(
                              AppendFormula(AppendMarker(with_text, START_FORMULA),
                                            formula_sequence),
                              END_FORMULA)
             IN  tokenize_from(with_formula, chunks, forms, idx + 1)

tokenize_sequence(name, txt, forms) ==
    tokenize_from(Sequence(name), str_split(txt, FORMULA_IDENTIFIER), forms, 0)

\* split_sequence(sequence, max_len)[0] where the sequence is longer than
\* max_len: <<the first sub-sequence>>, or None when the expression raises.
\* With max_len < 1 the recursion never returns a sub-sequence (it ends in
\* RecursionError, IndexError or []), and [][0] is an IndexError.
FirstSplit(seq, max_len) ==
    IF max_len < 1 THEN None
    ELSE LET parts == split_sequence(seq, max_len)
         IN  IF parts = <<>> THEN None ELSE <<parts[1]>>

-----------------------------------------------------------------------------
(* loading.py: PreTrainDatasetPreloaded.__init__, for one article *)

\* lines 156-158: max_seq_len is set, the article is split. The tokenizer
\* never reads max_seq_len, so the argument is drawn where it is first read.
SplitArticle ==
    /\ pc = "returned"
    /\ \E len \in 1..MaxSplitLen :
          /\ max_seq_len' = len
          /\ data' = data \o split_sequence(sequence, len)
    /\ pc' = "done"
    /\ UNCHANGED <<batchVars, taskVars, options, text, formulas, text_chunks, text_chunk_idx, sequence,
                   num_missing_formulas>>

\* lines 159-160: no max_seq_len (None or 0), the article is stored whole
StoreArticle ==
    /\ pc = "returned"
    /\ max_seq_len' = 0
    /\ data' = Append(data, sequence)
    /\ pc' = "done"
    /\ UNCHANGED <<batchVars, taskVars, options, text, formulas, text_chunks, text_chunk_idx, sequence,
                   num_missing_formulas>>

-----------------------------------------------------------------------------
(* torch, math_tokenize and utils, as the Collator uses them *)

Repeat(x, n) == [i \in 1..n |-> x]

MaxOf(S) == CHOOSE m \in S : \A x \in S : x <= m

\* torch.nn.utils.rnn.pad_sequence(rows, batch_first=True, padding_value):
\* every row right-padded to the longest row; `padding` is one padded entry
pad_sequence(rows, padding) ==
    LET max_len == MaxOf({Len(rows[i]) : i \in 1..Len(rows)})
    IN  [i \in 1..Len(rows) |-> rows[i] \o Repeat(padding, max_len - Len(rows[i]))]

\* math_tokenize.encode_pos: the encoding of a tree position, a vector as
\* wide as the position vector and never all zero
encode_pos(pos_vec, pos_level, tpe) ==
    [i \in 1..Len(pos_vec) |-> IF i <= pos_level + 1 THEN pos_vec[i] + 1 ELSE 0]

\* math_tokenize.get_empty_pos_encoding
get_empty_pos_encoding(tpe) == Repeat(0, Len(EMPTY_POS_VECTOR))

\* constants.DownstreamTask and utils.is_cls_task
NO_TASK == "None"
HEADLINES == "HEADLINES"
ANSWER_SCORING == "ANSWER_SCORING"

is_cls_task(t) == t = ANSWER_SCORING

-----------------------------------------------------------------------------
(* loading.py: Collator.__call__ *)

\* line 485
MaxGptTokenLen(seqs) ==
    MaxOf(UNION {{Len(seqs[k].gpt_tokens[i]) : i \in 1..Len(seqs[k].gpt_tokens)} :
                 k \in 1..Len(seqs)})

\* lines 494-499
PosEncodings(seq) ==
    [i \in 1..SeqLen(seq) |->
        IF seq.token_types[i] \notin {TEXT, START_FORMULA, END_FORMULA}
        THEN encode_pos(seq.pos_vecs[i], seq.pos_levels[i], options.tpe)
        ELSE get_empty_pos_encoding(options.tpe)]

\* lines 502-505
GptTokenRows(seq, max_gpt_token_len) ==
    [i \in 1..Len(seq.gpt_tokens) |->
        seq.gpt_tokens[i]
            \o Repeat(PADDING_TOKEN_ID, max_gpt_token_len - Len(seq.gpt_tokens[i]))]

\* line 507
UseSharedEmb(seq) == [i \in 1..Len(seq.gpt_tokens) |-> Len(seq.gpt_tokens[i]) # 0]

\* mutant: the prompt region is left in the labels
GenLabel_Unmasked(seq) == seq.token_ids

\* lines 515-516: gen_label[:prompt_length] = PADDING_TOKEN_ID on a copy of
\* the token ids
GenLabel(seq) ==
    LET n == Len(seq.token_ids)
    IN  [j \in 1..n |-> IF j <= SliceBound(seq.meta.prompt_length, n)
                        THEN PADDING_TOKEN_ID ELSE seq.token_ids[j]]

\* mutant: the padding value is left at pad_sequence's default
TokenIdsField_ZeroPadded(seqs) ==
    pad_sequence([k \in 1..Len(seqs) |-> seqs[k].token_ids], 0)

\* lines 488-489, 522
TokenIdsField(seqs) ==
    pad_sequence([k \in 1..Len(seqs) |-> seqs[k].token_ids], PADDING_TOKEN_ID)

\* mutant: the types are padded with a formula marker
TokenTypesField_MarkerPadded(seqs) ==
    pad_sequence([k \in 1..Len(seqs) |-> seqs[k].token_types], START_FORMULA)

\* lines 490, 523: the padding type is TokenType.TEXT
TokenTypesField(seqs) ==
    pad_sequence([k \in 1..Len(seqs) |-> seqs[k].token_types], TEXT)

\* lines 508, 529
AttentionMaskField(seqs) ==
    pad_sequence([k \in 1..Len(seqs) |-> Repeat(1, SeqLen(seqs[k]))], 0)

\* lines 470-534
Collate(seqs) ==
    LET n == Len(seqs)
        is_gen == task # NO_TASK /\ ~is_cls_task(task)
        is_cls == task # NO_TASK /\ is_cls_task(task)
        zero_vec == Repeat(0, Len(EMPTY_POS_VECTOR))
    IN  [sources |-> [k \in 1..n |-> seqs[k].name],
         token_ids |-> TokenIdsField(seqs),
         token_types |-> TokenTypesField(seqs),
         pos_vecs |-> pad_sequence([k \in 1..n |-> seqs[k].pos_vecs], zero_vec),
         pos_levels |-> pad_sequence([k \in 1..n |-> seqs[k].pos_levels], 0),
         pos_encodings |->
             IF options.tpe # TPE_NONE
             THEN pad_sequence([k \in 1..n |-> PosEncodings(seqs[k])], zero_vec)
             ELSE None,
         gpt_tokens |->
             IF options.shared_emb
             THEN LET max_gpt_token_len == MaxGptTokenLen(seqs)
                  IN  pad_sequence([k \in 1..n |-> GptTokenRows(seqs[k], max_gpt_token_len)],
                                   Repeat(PADDING_TOKEN_ID, max_gpt_token_len))
             ELSE None,
         use_shared_emb |->
             IF options.shared_emb
             THEN pad_sequence([k \in 1..n |-> UseSharedEmb(seqs[k])], FALSE)
             ELSE None,
         attention_mask |-> AttentionMaskField(seqs),
         sequence_lengths |-> [k \in 1..n |-> SeqLen(seqs[k])],
         prompt_lengths |->
             IF is_gen THEN [k \in 1..n |-> seqs[k].meta.prompt_length] ELSE None,
         gen_labels |->
             IF is_gen
             THEN pad_sequence([k \in 1..n |-> GenLabel(seqs[k])], PADDING_TOKEN_ID)
             ELSE None,
         cls_labels |-> IF is_cls THEN [k \in 1..n |-> seqs[k].meta.label] ELSE None]

CollateBatch ==
    /\ pc = "batch"
    /\ batch' = Collate(seq_batch)
    /\ pc' = "collated"
    /\ UNCHANGED <<taskVars, options, buildVars, task, seq_batch, sub_seq_batch, trims>>

-----------------------------------------------------------------------------
(* loading.py: trim_batch *)

\* mutant: the window takes the column at trim_end as well
TrimChannel_Inclusive(channel, start, end) ==
    [i \in 1..Len(channel) |-> PySlice(channel[i], start, end + 1)]

\* lines 451-454, 458: tensor[:, trim_start : trim_end]
TrimChannel(channel, start, end) ==
    [i \in 1..Len(channel) |-> PySlice(channel[i], start, end)]

\* mutant: an optional channel is handed on without being cut
TrimOptional_Uncut(channel, start, end) == channel

\* lines 455-457, 461: the same for a channel that may be None
TrimOptional(channel, start, end) ==
    IF channel # None THEN TrimChannel(channel, start, end) ELSE None

\* mutant: the lengths are counted from the end of the window
TrimmedLengths_FromEnd(lengths, start, end) ==
    [i \in 1..Len(lengths) |-> Min(end - start, Max(lengths[i] - end, 0))]

\* line 459
TrimmedLengths(lengths, start, end) ==
    [i \in 1..Len(lengths) |-> Min(end - start, Max(lengths[i] - start, 0))]

\* lines 445-463
trim_batch(b, start, end) ==
    [sources |-> b.sources,
     token_ids |-> TrimChannel(b.token_ids, start, end),
     token_types |-> TrimChannel(b.token_types, start, end),
     pos_vecs |-> TrimChannel(b.pos_vecs, start, end),
     pos_levels |-> TrimChannel(b.pos_levels, start, end),
     pos_encodings |-> TrimOptional(b.pos_encodings, start, end),
     gpt_tokens |-> TrimOptional(b.gpt_tokens, start, end),
     use_shared_emb |-> TrimOptional(b.use_shared_emb, start, end),
     attention_mask |-> TrimChannel(b.attention_mask, start, end),
     sequence_lengths |-> TrimmedLengths(b.sequence_lengths, start, end),
     prompt_lengths |-> b.prompt_lengths,
     gen_labels |-> TrimOptional(b.gen_labels, start, end),
     cls_labels |-> b.cls_labels]

\* the offsets a call may be given: inside the batch and past its last
\* column, in either order
Offsets == 0..(MaxSeqLen + 1)

\* trim_batch(batch, trim_start, trim_end) on a collated batch; the batch
\* handed in stays bound to `batch`
TrimBatch ==
    /\ pc = "collated"
    /\ \E start \in Offsets, end \in Offsets :
          /\ sub_seq_batch' = trim_batch(batch, start, end)
          /\ trims' = <<<<start, end>>>>
    /\ pc' = "trimmed"
    /\ UNCHANGED <<taskVars, options, buildVars, task, seq_batch, batch>>

\* the result trimmed once more, to the window [0, trim_end - trim_start)
TrimAgain ==
    /\ pc = "trimmed"
    /\ LET width == trims[1][2] - trims[1][1]
       IN  /\ sub_seq_batch' = trim_batch(sub_seq_batch, 0, width)
           /\ trims' = Append(trims, <<0, width>>)
    /\ batch' = sub_seq_batch
    /\ pc' = "retrimmed"
    /\ UNCHANGED <<taskVars, options, buildVars, task, seq_batch>>

-----------------------------------------------------------------------------
(* The inputs *)

Var(symbol) == [type |-> VAR, symbol |-> symbol, children |-> <<>>]

Num(symbol) == [type |-> NUM, symbol |-> symbol, children |-> <<>>]

Op(symbol, children) == [type |-> OP, symbol |-> symbol, children |-> children]

\* the formulas a key may map to: a lone variable, and an operator over a
\* variable and a number; the symbols tell the keys apart
FormulaChoices(k) ==
    {[tex |-> <<"x">>, opt |-> Var(20 + k)],
     [tex |-> <<"x", "y">>, opt |-> Op(30 + k, <<Var(40 + k), Num(50 + k)>>)]}

FormulaKeys == {"0", "1"}

KeyIndex(key) == CHOOSE i \in 0..9 : str(i) = key

FormulaMaps ==
    UNION {{m \in [keys -> UNION {FormulaChoices(KeyIndex(k)) : k \in keys}] :
                \A k \in keys : m[k] \in FormulaChoices(KeyIndex(k))} :
           keys \in SUBSET FormulaKeys}

RECURSIVE Count(_, _)
Count(s, x) ==
    IF s = <<>> THEN 0 ELSE (IF Head(s) = x THEN 1 ELSE 0) + Count(Tail(s), x)

Texts ==
    {t \in UNION {[1..n -> Words \cup {FORMULA_IDENTIFIER}] : n \in 0..MaxTextLen} :
        Count(t, FORMULA_IDENTIFIER) <= MaxPlaceholders}

\* post_proc is read in baseline mode only
OptionSets ==
    {o \in [baseline : BOOLEAN, post_proc : BOOLEAN, shared_emb : BOOLEAN,
            tpe : {TPE_NONE}] :
        o.post_proc => o.baseline}

\* nothing collated yet
NoBatch ==
    /\ task = NO_TASK
    /\ seq_batch = <<>>
    /\ batch = None
    /\ sub_seq_batch = None
    /\ trims = <<>>

\* no task dataset
NoDataset ==
    /\ trimmed_sequences = 0
    /\ sample = None
    /\ int_seqs = <<>>
    /\ label_seqs = <<>>
    /\ pid_to_seq = <<>>
    /\ problems = <<>>
    /\ example_bank = <<>>
    /\ scaffold = None
    /\ index = 0
    /\ initial_examples = <<>>
    /\ additional_examples = <<>>
    /\ example_sequences = <<>>
    /\ returned = None

\* no position inferred
NoInfer ==
    /\ prev_pos_vecs = <<>>
    /\ prev_pos_levels = <<>>
    /\ prev_token_types = <<>>
    /\ new_pos = None

\* no evaluation running
NoEval ==
    /\ stride = 0
    /\ sequence_length = 0
    /\ split_point = 0
    /\ labels = None
    /\ nlls = <<>>

\* no split in progress
NoSplit ==
    /\ post_split = None
    /\ recursion_depth = 0

Init ==
    /\ pc = "start"
    /\ NoBatch
    /\ NoDataset
    /\ NoInfer
    /\ NoEval
    /\ NoSplit
    /\ options \in OptionSets
    /\ text \in Texts
    /\ formulas \in FormulaMaps
    /\ text_chunks = <<>>
    /\ text_chunk_idx = 0
    /\ sequence = Sequence("")
    /\ num_missing_formulas = 0
    /\ max_seq_len = 0
    /\ data = <<>>

Next ==
    \/ TokenizeSequence
    \/ AppendTextChunk
    \/ ReturnSequence
    \/ SkipMissingFormula
    \/ AppendBaselineFormula
    \/ AppendStartFormula
    \/ AppendFormulaRun
    \/ AppendEndFormula
    \/ SplitArticle
    \/ StoreArticle

Spec == Init /\ [][Next]_vars

-----------------------------------------------------------------------------
(* Collation and trimming: the inputs of the Collator *)

\* the tokens of "a [F] b" with formula 0 an operator over a variable and a
\* number: text, START_FORMULA, OP, VAR, NUM, END, END_FORMULA, text
Master ==
    LET formula == Op(30, <<Var(40), Num(50)>>)
        s1 == AppendText(Sequence(""), text_tokenizer(<<"a">>))
        s2 == AppendMarker(s1, START_FORMULA)
        s3 == AppendFormula(s2, tokenize_formula(formula, options))
        s4 == AppendMarker(s3, END_FORMULA)
    IN  AppendText(s4, text_tokenizer(<<"b">>))

\* what a dataset attaches to a sequence of n tokens: the prompt length of
\* a generative task, the label of a classification task
Metas(n) ==
    IF task = NO_TASK THEN {None}
    ELSE IF is_cls_task(task) THEN {[label |-> g] : g \in {0, 1}}
    ELSE {[prompt_length |-> p] : p \in 0..n}

\* row r of a batch: n tokens of Master from token r on, named after r
Rows(r) ==
    UNION {{[split_at(split_at(Master, r - 1)[2], n)[1]
                EXCEPT !.name = str(r), !.meta = m] : m \in Metas(n)} :
           n \in 1..MaxSeqLen}

RECURSIVE BatchesOf(_)
BatchesOf(k) ==
    IF k = 0 THEN {<<>>}
    ELSE {Append(b, row) : b \in BatchesOf(k - 1), row \in Rows(k)}

SeqBatches == UNION {BatchesOf(k) : k \in 1..MaxBatch}

CollateOptionSets ==
    [baseline : {FALSE}, post_proc : {FALSE}, shared_emb : BOOLEAN,
     tpe : {TPE_NONE, TPE_FORTE}]

\* no dataset under construction
NoBuild ==
    /\ text = <<>>
    /\ formulas = <<>>
    /\ text_chunks = <<>>
    /\ text_chunk_idx = 0
    /\ sequence = Sequence("")
    /\ num_missing_formulas = 0
    /\ max_seq_len = 0
    /\ data = <<>>

InitCollate ==
    /\ pc = "batch"
    /\ NoBuild
    /\ NoDataset
    /\ NoInfer
    /\ NoEval
    /\ NoSplit
    /\ options \in CollateOptionSets
    /\ task \in {NO_TASK, HEADLINES, ANSWER_SCORING}
    /\ seq_batch \in SeqBatches
    /\ batch = None
    /\ sub_seq_batch = None
    /\ trims = <<>>

NextCollate ==
    \/ CollateBatch
    \/ TrimBatch
    \/ TrimAgain

SpecCollate == InitCollate /\ [][NextCollate]_vars

-----------------------------------------------------------------------------
(* Vocabulary of the properties *)

\* split_sequence has run on `sequence` with limit max_seq_len
SplitDone == pc = "done" /\ max_seq_len >= 1

\* the per-token channels of a sequence, restricted to tokens a..b
Window(seq, a, b) ==
    <<SubSeq(seq.token_ids, a, b), SubSeq(seq.token_types, a, b),
      SubSeq(seq.pos_vecs, a, b), SubSeq(seq.pos_levels, a, b)>>

Channels(seq) == Window(seq, 1, SeqLen(seq))

\* parts are slices of seq taken left to right from token `from` on, no two
\* of them sharing a token
RECURSIVE OrderedSlices(_, _, _)
OrderedSlices(parts, seq, from) ==
    \/ parts = <<>>
    \/ \E a \in from..(SeqLen(seq) + 1) :
          LET b == a + SeqLen(Head(parts))
          IN  /\ b <= SeqLen(seq) + 1
              /\ Channels(Head(parts)) = Window(seq, a, b - 1)
              /\ OrderedSlices(Tail(parts), seq, b)

\* each formula is START_FORMULA, tokens that are neither text nor markers,
\* END_FORMULA; outside a formula there is only text
WellFormed(seq) ==
    LET types == seq.token_types
        n == Len(types)
        Inner == {OP, VAR, NUM, END}
    IN  /\ n > 0 => types[1] \in {TEXT, START_FORMULA}
        /\ n > 0 => types[n] \in {TEXT, END_FORMULA}
        /\ \A i \in 1..(n - 1) :
              /\ types[i] \in {TEXT, END_FORMULA} => types[i + 1] \in {TEXT, START_FORMULA}
              /\ types[i] \in Inner \cup {START_FORMULA} =>
                     types[i + 1] \in Inner \cup {END_FORMULA}

\* the formula span (first token, last token) around token i of a well-formed
\* sequence, i not a text token
SpanStart(types, i) ==
    CHOOSE a \in 1..i : types[a] = START_FORMULA
                        /\ \A j \in (a + 1)..i : types[j] # START_FORMULA

SpanEnd(types, i) ==
    CHOOSE b \in i..Len(types) : types[b] = END_FORMULA
                                 /\ \A j \in i..(b - 1) : types[j] # END_FORMULA

\* token i lies in a formula span longer than max_len
InOversizedFormula(types, i, max_len) ==
    /\ types[i] # TEXT
    /\ SpanEnd(types, i) - SpanStart(types, i) + 1 > max_len

\* seq with the formula spans longer than max_len deleted
WithoutOversized(seq, max_len) ==
    LET kept == SelectSeq([i \in 1..SeqLen(seq) |-> i],
                          LAMBDA i : ~InOversizedFormula(seq.token_types, i, max_len))
        pick(channel) == [k \in 1..Len(kept) |-> channel[kept[k]]]
    IN  <<pick(seq.token_ids), pick(seq.token_types),
          pick(seq.pos_vecs), pick(seq.pos_levels)>>

\* the sub-sequences joined in order
RECURSIVE Joined(_)
Joined(parts) ==
    IF parts = <<>> THEN <<<<>>, <<>>, <<>>, <<>>>>
    ELSE LET h == Channels(Head(parts))
             t == Joined(Tail(parts))
         IN  <<h[1] \o t[1], h[2] \o t[2], h[3] \o t[3], h[4] \o t[4]>>

-----------------------------------------------------------------------------
(* C1: split_sequence loses nothing but the formulas that are longer than
   the limit: the returned sub-sequences, joined in order, are the sequence
   with exactly the oversized formula spans deleted. *)
C1_OnlyOversizedDropped ==
    SplitDone => Joined(data) = WithoutOversized(sequence, max_seq_len)

(* C2: every sub-sequence split_sequence returns is at most max_seq_len long,
   and the sub-sequences are slices of the sequence in left-to-right order
   that share no token. *)
C2_BoundedOrderedDisjoint ==
    SplitDone =>
        /\ \A k \in 1..Len(data) : SeqLen(data[k]) <= max_seq_len
        /\ OrderedSlices(data, sequence, 1)

\* a sequence longer than the limit was cut into several sub-sequences
C2_Witness ==
    /\ SplitDone
    /\ SeqLen(sequence) > max_seq_len
    /\ Len(data) >= 3
    /\ \E i \in 1..SeqLen(sequence) : sequence.token_types[i] = START_FORMULA

(* C3: on a well-formed sequence no cut of split_sequence lies strictly
   inside a formula: every sub-sequence starts at a text token or a
   START_FORMULA and ends at a text token or an END_FORMULA, its formulas
   whole. *)
C3_NoCutInsideFormula ==
    (SplitDone /\ WellFormed(sequence)) =>
        \A k \in 1..Len(data) :
            LET types == data[k].token_types
            IN  /\ types # <<>> => types[1] \in {TEXT, START_FORMULA}
                /\ types # <<>> => types[Len(types)] \in {TEXT, END_FORMULA}
                /\ WellFormed(data[k])

\* the split point fell on a formula token and the sequence was cut before
\* that formula
C3_Witness ==
    /\ SplitDone
    /\ WellFormed(sequence)
    /\ SeqLen(sequence) > max_seq_len
    /\ sequence.token_types[max_seq_len + 1] \in {OP, VAR, NUM, END, END_FORMULA}
    /\ Len(data) >= 2
    /\ data[1].token_types[SeqLen(data[1])] = TEXT
    /\ data[2].token_types[1] = START_FORMULA

(* C4: a sequence no longer than the limit is returned alone and unchanged. *)
C4_TrivialSplit ==
    (SplitDone /\ SeqLen(sequence) <= max_seq_len) => data = <<sequence>>

\* a non-empty sequence exactly as long as the limit went through
C4_Witness ==
    /\ SplitDone
    /\ SeqLen(sequence) = max_seq_len
    /\ \E i \in 1..SeqLen(sequence) : sequence.token_types[i] = START_FORMULA

-----------------------------------------------------------------------------
(* tokenize_sequence: what the text and the formula map call for *)

NumPlaceholders == Count(text, FORMULA_IDENTIFIER)

\* the placeholder occurrences the formula map has no formula for
MissingIndices == {i \in 0..(NumPlaceholders - 1) : str(i) \notin DOMAIN formulas}

\* the token ids and types formula `formula` stands for in the sequence
FormulaTokens(formula) ==
    IF options.baseline
    THEN LET run == tokenize_formula(formula.opt, options)
             words == IF options.post_proc
                      THEN decode_formula(run.token_ids, run.token_types)
                      ELSE formula.tex
             ids == text_tokenizer(<<"<m>">> \o words \o <<"</m>">>)
         IN  [ids |-> ids, types |-> [i \in 1..Len(ids) |-> TEXT]]
    ELSE LET run == tokenize_formula(formula.opt, options)
         IN  [ids |-> <<0>> \o run.token_ids \o <<0>>,
              types |-> <<START_FORMULA>> \o run.token_types \o <<END_FORMULA>>]

\* the tokens from chunk i on: chunk i, then formula i under key str(i) when
\* the map has it, then the rest
RECURSIVE ExpectedTokens(_)
ExpectedTokens(i) ==
    LET chunk == text_tokenizer(str_split(text, FORMULA_IDENTIFIER)[i + 1])
        here == [ids |-> chunk, types |-> [k \in 1..Len(chunk) |-> TEXT]]
    IN  IF i = NumPlaceholders THEN here
        ELSE LET form == IF str(i) \in DOMAIN formulas
                         THEN FormulaTokens(formulas[str(i)])
                         ELSE [ids |-> <<>>, types |-> <<>>]
                 rest == ExpectedTokens(i + 1)
             IN  [ids |-> here.ids \o form.ids \o rest.ids,
                  types |-> here.types \o form.types \o rest.types]

(* C10: tokenize_sequence returns as missing-formula count the number of
   placeholder occurrences i whose key str(i) is absent from the map; an
   absent formula adds no token, and occurrence i is looked up under str(i)
   whatever was missing before it. *)
C10_MissingFormulas ==
    pc \in {"returned", "done"} =>
        /\ num_missing_formulas = Cardinality(MissingIndices)
        /\ sequence.token_ids = ExpectedTokens(0).ids
        /\ sequence.token_types = ExpectedTokens(0).types
        /\ ~options.baseline =>
              /\ Count(sequence.token_types, START_FORMULA)
                     = NumPlaceholders - num_missing_formulas
              /\ Count(sequence.token_types, END_FORMULA)
                     = NumPlaceholders - num_missing_formulas

\* formula 0 was missing and formula 1, after it, was found under key "1"
C10_Witness ==
    /\ pc = "returned"
    /\ NumPlaceholders = 2
    /\ DOMAIN formulas = {"1"}
    /\ num_missing_formulas = 1
    /\ ~options.baseline
    /\ Count(sequence.token_types, START_FORMULA) = 1

-----------------------------------------------------------------------------
(* Vocabulary of the properties of collation and trimming *)

\* the longest sequence of the batch being collated
MaxLen == MaxOf({SeqLen(seq_batch[i]) : i \in 1..Len(seq_batch)})

IsGenTask == task # NO_TASK /\ ~is_cls_task(task)

\* clamp(x, lo, hi): x limited to at most hi and never below lo
Clamp(x, lo, hi) == Max(lo, Min(x, hi))

\* the channels of a CollatedBatch that run along the sequence axis
SequenceAxis ==
    {"token_ids", "token_types", "pos_vecs", "pos_levels", "pos_encodings",
     "gpt_tokens", "use_shared_emb", "attention_mask", "gen_labels"}

\* row `cut` is row `whole` restricted to the columns [start, end), for
\* start, end >= 0
IsColumns(cut, whole, start, end) ==
    /\ Len(cut) = Max(0, Min(end, Len(whole)) - start)
    /\ \A k \in 1..Len(cut) : cut[k] = whole[start + k]

\* t is b restricted to the columns [start, end): the channels along the
\* sequence axis are cut, a None channel stays None, the rest is handed on
RestrictsTo(t, b, start, end) ==
    /\ t.sources = b.sources
    /\ t.prompt_lengths = b.prompt_lengths
    /\ t.cls_labels = b.cls_labels
    /\ \A c \in SequenceAxis :
          IF b[c] = None THEN t[c] = None
          ELSE /\ Len(t[c]) = Len(b[c])
               /\ (start >= 0 /\ end >= 0) =>
                     \A i \in 1..Len(b[c]) : IsColumns(t[c][i], b[c][i], start, end)

-----------------------------------------------------------------------------
(* C5: in a collated batch row i of token_ids is sequence i's token ids and
   then PADDING_TOKEN_ID up to the longest sequence, row i of attention_mask
   is l_i ones and then zeros, and sequence_lengths[i] is l_i. *)
C5_CollationPadding ==
    pc = "collated" =>
        \A i \in 1..Len(seq_batch) :
            LET l == SeqLen(seq_batch[i])
            IN  /\ Len(batch.token_ids[i]) = MaxLen
                /\ Len(batch.attention_mask[i]) = MaxLen
                /\ \A j \in 1..MaxLen :
                      /\ batch.token_ids[i][j] =
                             (IF j <= l THEN seq_batch[i].token_ids[j]
                              ELSE PADDING_TOKEN_ID)
                      /\ batch.attention_mask[i][j] = (IF j <= l THEN 1 ELSE 0)
                /\ batch.sequence_lengths[i] = l

\* two sequences of different lengths were collated
C5_Witness ==
    /\ pc = "collated"
    /\ Len(seq_batch) = 2
    /\ SeqLen(seq_batch[1]) < SeqLen(seq_batch[2])
    /\ batch.token_ids[1][MaxLen] = PADDING_TOKEN_ID

(* C6: for a generative task gen_labels[i] is PADDING_TOKEN_ID before the
   prompt length p, the token id from p to the end of the sequence, and
   PADDING_TOKEN_ID on the padding; prompt_lengths[i] is p. *)
C6_GenLabelMasking ==
    (pc = "collated" /\ IsGenTask) =>
        \A i \in 1..Len(seq_batch) :
            LET l == SeqLen(seq_batch[i])
                p == seq_batch[i].meta.prompt_length
            IN  /\ Len(batch.gen_labels[i]) = MaxLen
                /\ \A j \in 0..(MaxLen - 1) :
                      batch.gen_labels[i][j + 1] =
                          (IF j < p THEN PADDING_TOKEN_ID
                           ELSE IF j < l THEN batch.token_ids[i][j + 1]
                           ELSE PADDING_TOKEN_ID)
                /\ batch.prompt_lengths[i] = p

\* a sequence with a prompt and a label part, next to a longer sequence
C6_Witness ==
    /\ pc = "collated"
    /\ IsGenTask
    /\ Len(seq_batch) = 2
    /\ seq_batch[1].meta.prompt_length = 1
    /\ SeqLen(seq_batch[1]) = 2
    /\ SeqLen(seq_batch[2]) = 3
    /\ batch.gen_labels[1] = <<PADDING_TOKEN_ID, seq_batch[1].token_ids[2], PADDING_TOKEN_ID>>

(* C7: trim_batch(B, a, b).sequence_lengths[i] is
   clamp(b - a, 0, original_lengths[i] - a), for every pair of offsets. *)
C7_LengthRecompute ==
    pc = "trimmed" =>
        \A i \in 1..Len(batch.sequence_lengths) :
            sub_seq_batch.sequence_lengths[i] =
                Clamp(trims[1][2] - trims[1][1], 0,
                      batch.sequence_lengths[i] - trims[1][1])

(* C8: for offsets a, b >= 0, trim_batch(trim_batch(B, a, b), 0, b - a)
   equals trim_batch(B, a, b) on every field. *)
C8_TrimIdempotent ==
    (pc = "retrimmed" /\ trims[1][1] >= 0 /\ trims[1][2] >= 0) =>
        /\ sub_seq_batch = batch
        /\ \A c \in DOMAIN batch : sub_seq_batch[c] = batch[c]

\* a window inside the batch that cuts columns off on both sides, trimmed
\* again
C8_Witness ==
    /\ pc = "retrimmed"
    /\ trims = <<<<1, 2>>, <<0, 1>>>>
    /\ IsGenTask
    /\ \E i \in 1..Len(seq_batch) : SeqLen(seq_batch[i]) = 3
    /\ \E i \in 1..Len(seq_batch) : batch.sequence_lengths[i] = 0

(* C9: trim_batch(B, start, end) leaves B as it was, and its result has
   every channel along the sequence axis restricted to the columns
   [start, end), a None channel still None, and sources, prompt_lengths and
   cls_labels as in B. *)
C9_TrimFrame ==
    [][(pc = "collated" /\ pc' = "trimmed") =>
          /\ batch' = batch
          /\ RestrictsTo(sub_seq_batch', batch, trims'[1][1], trims'[1][2])]_vars

\* a batch with labels but no position encodings, cut to a window inside it
C9_Witness ==
    /\ pc = "trimmed"
    /\ trims = <<<<1, 2>>>>
    /\ IsGenTask
    /\ batch.pos_encodings = None
    /\ batch.gpt_tokens # None
    /\ Len(batch.token_ids[1]) = 3
    /\ sub_seq_batch.gen_labels[1] = <<batch.gen_labels[1][2]>>
    /\ sub_seq_batch.pos_encodings = None

-----------------------------------------------------------------------------
(* tokenize_sequence: the token-type stream and the channels *)

\* the START_FORMULA and END_FORMULA tokens of a type stream, in order
Markers(types) == SelectSeq(types, LAMBDA t : t \in {START_FORMULA, END_FORMULA})

\* the type stream of structured mode from chunk i on: the TEXT tokens of
\* chunk i, then formula i between its markers when the map has it, then the
\* rest
RECURSIVE StructuredStream(_)
StructuredStream(i) ==
    LET chunk == Repeat(TEXT, Len(text_tokenizer(str_split(text, FORMULA_IDENTIFIER)[i + 1])))
    IN  IF i = NumPlaceholders THEN chunk
        ELSE chunk
             \o (IF str(i) \in DOMAIN formulas
                 THEN <<START_FORMULA>>
                      \o tokenize_formula(formulas[str(i)].opt, options).token_types
                      \o <<END_FORMULA>>
                 ELSE <<>>)
             \o StructuredStream(i + 1)

IsPrefix(s, t) == Len(s) <= Len(t) /\ s = SubSeq(t, 1, Len(s))

(* C11: in structured mode the token types tokenize_sequence appends are, in
   order, the TEXT tokens of chunk 0 and then, for each placeholder i, the
   START_FORMULA, the formula tokenizer's run and the END_FORMULA of formula i
   when it is present, followed by the TEXT tokens of chunk i + 1. The
   markers alternate starting with START_FORMULA, each occurs N - missing
   times in the returned sequence, and no TEXT token lies between a
   START_FORMULA and its END_FORMULA. *)
C11_StructuredStream ==
    (pc # "start" /\ ~options.baseline) =>
        LET types == sequence.token_types
            marks == Markers(types)
        IN  /\ IsPrefix(types, StructuredStream(0))
            /\ \A k \in 1..Len(marks) :
                  marks[k] = (IF k % 2 = 1 THEN START_FORMULA ELSE END_FORMULA)
            /\ \A i \in 1..Len(types) :
                  types[i] = TEXT =>
                      Count(SubSeq(types, 1, i), START_FORMULA)
                          = Count(SubSeq(types, 1, i), END_FORMULA)
            /\ pc \in {"returned", "done"} =>
                  /\ types = StructuredStream(0)
                  /\ Count(types, START_FORMULA) = NumPlaceholders - num_missing_formulas
                  /\ Count(types, END_FORMULA) = NumPlaceholders - num_missing_formulas

\* a text with two placeholders, both formulas present, the second an
\* operator, was tokenized in structured mode
C11_Witness ==
    /\ pc = "returned"
    /\ ~options.baseline
    /\ NumPlaceholders = 2
    /\ num_missing_formulas = 0
    /\ Markers(sequence.token_types)
           = <<START_FORMULA, END_FORMULA, START_FORMULA, END_FORMULA>>
    /\ Count(sequence.token_types, OP) >= 1
    /\ Count(sequence.token_types, TEXT) >= 1

\* the per-token channels of seq have one length
LockStep(seq) ==
    /\ Len(seq.token_types) = Len(seq.token_ids)
    /\ Len(seq.pos_vecs) = Len(seq.token_ids)
    /\ Len(seq.pos_levels) = Len(seq.token_ids)
    /\ options.shared_emb => Len(seq.gpt_tokens) = Len(seq.token_ids)

(* C12: after every append step of tokenize_sequence and in the sequence it
   returns, token_ids, token_types, pos_vecs and pos_levels have the same
   length, and so has gpt_tokens when shared_emb is enabled, in baseline and
   in structured mode, with or without missing formulas. *)
C12_LockStepChannels == LockStep(sequence)

\* shared_emb is on, a formula was missing and another was appended with
\* its markers
C12_Witness ==
    /\ pc = "returned"
    /\ options.shared_emb
    /\ ~options.baseline
    /\ num_missing_formulas = 1
    /\ Count(sequence.token_types, END_FORMULA) = 1
    /\ Len(sequence.gpt_tokens) = Len(sequence.token_ids)
    /\ \E i \in 1..Len(sequence.gpt_tokens) : sequence.gpt_tokens[i] # <<>>

-----------------------------------------------------------------------------
(* split_sequence: the cut before a formula *)

(* C18: when the sequence is longer than the limit L, the token at index L
   is not TEXT and some TEXT token lies at an index k < L (k = 0 included),
   the first sub-sequence returned is S[0 .. k] for the largest such k, and
   the rest of the result is the split of all of S[k + 1 ..]: nothing is
   dropped by this step. *)
C18_CutAfterNearestText ==
    (/\ SplitDone
     /\ SeqLen(sequence) > max_seq_len
     /\ sequence.token_types[max_seq_len + 1] # TEXT
     /\ \E k \in 0..(max_seq_len - 1) : sequence.token_types[k + 1] = TEXT) =>
        LET found == {i \in 0..(max_seq_len - 1) : sequence.token_types[i + 1] = TEXT}
            k == CHOOSE i \in found : \A j \in found : j <= i
            remainder == split_at(sequence, k + 1)[2]
        IN  /\ data # <<>>
            /\ Channels(data[1]) = Window(sequence, 1, k + 1)
            /\ Tail(data) = split_sequence(remainder, max_seq_len)

-----------------------------------------------------------------------------
(* loading.py: AnswerScoringDataset *)

\* most samples handed to an answer scoring dataset
MaxAnswers == 2
\* largest options.max_seq_len of an answer scoring dataset
MaxScoringLen == 30

\* lines 270-281: the static sequences added to each sample
ScoreWord(grade) == <<"Wrong", "Poor", "Fair", "Good", "Excellent">>[grade + 1]

StaticSequence(words) == tokenize_sequence("", words, <<>>)[1]

Scaffold ==
    [qs_prefix_seq |-> StaticSequence(<<"Question:">>),
     scores_seq |-> StaticSequence(<<"[SEP]", "Possible", "scores:", "Wrong", "Poor",
                                     "Fair", "Good", "Excellent">>),
     example_prefix_seq |-> StaticSequence(<<"[SEP]", "Example:">>),
     answer_prefix_seq |-> StaticSequence(<<"[SEP]", "Score", "this", "answer:">>),
     cls_seq |-> StaticSequence(<<"[CLS]">>),
     grade_to_score_seq |-> [grade \in 0..4 |-> StaticSequence(<<"Score:", ScoreWord(grade)>>)]]

\* mutant: the whole remaining space goes to each component
MaxComponentLen_Whole(scaf) ==
    options.max_seq_len
        - (SeqLen(scaf.qs_prefix_seq) + SeqLen(scaf.scores_seq)
           + SeqLen(scaf.answer_prefix_seq) + SeqLen(scaf.cls_seq))

\* lines 284-286: half the space the scaffold leaves (// rounds down)
MaxComponentLen(scaf) ==
    (options.max_seq_len
        - (SeqLen(scaf.qs_prefix_seq) + SeqLen(scaf.scores_seq)
           + SeqLen(scaf.answer_prefix_seq) + SeqLen(scaf.cls_seq))) \div 2

\* lines 290-294, 304-308: a tokenized component, cut to its first
\* sub-sequence when it is too long: [seq, trimmed, missing], or None when
\* the cut raises
CapComponent(txt, forms, max_component_len) ==
    LET tokenized == tokenize_sequence("", txt, forms)
    IN  IF SeqLen(tokenized[1]) > max_component_len
        THEN LET first == FirstSplit(tokenized[1], max_component_len)
             IN  IF first = None THEN None
                 ELSE <<[seq |-> first[1], trimmed |-> 1, missing |-> tokenized[2]]>>
        ELSE <<[seq |-> tokenized[1], trimmed |-> 0, missing |-> tokenized[2]]>>

\* lines 289-300: the answers, in order, each with its meta
ProcessAnswers(samples, max_component_len) ==
    [k \in 1..Len(samples) |->
        LET capped == CapComponent(samples[k].answer.text, samples[k].answer.formulas,
                                   max_component_len)
        IN  IF capped = None THEN None
            ELSE <<[capped[1] EXCEPT
                      !.seq.meta = [problem_id |-> samples[k].problem_id,
                                    problem_log_id |-> samples[k].problem_log_id,
                                    label |-> samples[k].grade]]>>]

\* lines 303-309: the problems, by id
ProcessProblems(probs, max_component_len) ==
    [pid \in DOMAIN probs |->
        CapComponent(probs[pid].text, probs[pid].formulas, max_component_len)]

\* lines 312-315: the examples grouped by problem and by grade, in order
ExampleBank(examples) ==
    [pid \in {examples[k].meta.problem_id : k \in 1..Len(examples)} |->
        [grade \in 0..(options.num_classes - 1) |->
            SelectSeq(examples, LAMBDA e : e.meta.problem_id = pid /\ e.meta.label = grade)]]

RECURSIVE SumOver(_, _)
SumOver(list, field) ==
    IF list = <<>> THEN 0 ELSE Head(list)[1][field] + SumOver(Tail(list), field)

\* options.num_classes, the grades 0 .. num_classes - 1
NumClasses == 2

\* the answers and problem statements: a word, and words around a formula
ShortText == [text |-> <<"a">>, formulas |-> <<>>]

LongText == [text |-> <<"a", FORMULA_IDENTIFIER, "b">>,
             formulas |-> [key \in {"0"} |-> [tex |-> <<"x">>, opt |-> Var(20)]]]

\* sample k of the list: an answer to problem 1 with a grade, logged as k
ScoringSamplePool(k) ==
    {[answer |-> a, problem_id |-> 1, problem_log_id |-> k, grade |-> g] :
        a \in {ShortText, LongText}, g \in 0..(NumClasses - 1)}

RECURSIVE SampleLists(_, _)
SampleLists(Pool(_), n) ==
    IF n = 0 THEN {<<>>}
    ELSE {Append(l, smp) : l \in SampleLists(Pool, n - 1), smp \in Pool(n)}

ScoringSamples == UNION {SampleLists(ScoringSamplePool, n) : n \in 1..MaxAnswers}

ScoringProblems == {[pid \in {1} |-> t] : t \in {ShortText, LongText}}

\* an example handed in from outside, which no constructor has trimmed
Example(t, pid, grade) ==
    [tokenize_sequence("", t.text, t.formulas)[1]
        EXCEPT !.meta = [problem_id |-> pid, problem_log_id |-> 0, label |-> grade]]

\* the most examples of one grade random.sample draws (line 333)
SampleSize == 5

\* the `examples` argument: None, an example of another problem, a long
\* and a short example of problem 1, of one grade or of two, or the answer
\* logged as 1 followed by one example listed SampleSize + 1 times
ExampleArgs ==
    {None, <<Example(LongText, 2, 0)>>}
        \cup {<<Example(LongText, 1, 0), Example(ShortText, 1, g)>> :
                 g \in 0..(NumClasses - 1)}
        \cup {<<[Example(LongText, 1, 1) EXCEPT !.meta.problem_log_id = 1]>>
                 \o [k \in 1..(SampleSize + 1) |-> Example(ShortText, 1, 0)]}

ScoringBudgets ==
    {MaxScoringLen - 15, MaxScoringLen - 12, MaxScoringLen - 6, MaxScoringLen}

ScoringOptionSets ==
    [baseline : BOOLEAN, post_proc : {FALSE}, shared_emb : {FALSE}, tpe : {TPE_NONE},
     num_classes : {NumClasses}, max_seq_len : ScoringBudgets]

\* lines 262-318
BuildAnswerScoringDataset ==
    /\ pc = "init"
    /\ \E samples \in ScoringSamples, probs \in ScoringProblems, examples \in ExampleArgs :
       \E max_component_len \in {MaxComponentLen(Scaffold)} :
       \E answers \in {ProcessAnswers(samples, max_component_len)} :
       \E capped \in {ProcessProblems(probs, max_component_len)} :
          LET answer_sequences == [k \in 1..Len(answers) |-> answers[k][1].seq]
          IN  IF \/ \E k \in 1..Len(answers) : answers[k] = None
                 \/ \E pid \in DOMAIN capped : capped[pid] = None
              THEN \* split_sequence(...)[0] raised: no dataset
                   /\ pc' = "raised"
                   /\ UNCHANGED <<data, num_missing_formulas, trimmed_sequences, problems,
                                  example_bank, scaffold>>
              ELSE /\ scaffold' = Scaffold
                   /\ data' = answer_sequences
                   /\ problems' = [pid \in DOMAIN capped |-> capped[pid][1].seq]
                   /\ example_bank' = ExampleBank(IF examples # <<>> THEN examples
                                                  ELSE answer_sequences)
                   /\ num_missing_formulas' =
                          SumOver(answers, "missing") + SumOver(capped, "missing")
                   /\ trimmed_sequences' =
                          SumOver(answers, "trimmed") + SumOver(capped, "trimmed")
                   /\ pc' = "built"
    /\ UNCHANGED <<options, text, formulas, text_chunks, text_chunk_idx, sequence,
                   max_seq_len, batchVars, sample, int_seqs, label_seqs, pid_to_seq,
                   index, initial_examples, additional_examples, example_sequences,
                   returned, inferVars, evalVars, splitVars>>

\* the ways to pick k different indices out of a set, in an order
RECURSIVE Arrangements(_, _)
Arrangements(indices, k) ==
    IF k = 0 THEN {<<>>}
    ELSE UNION {{<<i>> \o rest : rest \in Arrangements(indices \ {i}, k - 1)} :
                   i \in indices}

\* random.sample(list, k): k different entries of the list, in any order
random_sample(list, k) ==
    {[i \in 1..k |-> list[p[i]]] : p \in Arrangements(1..Len(list), k)}

\* random.shuffle(list): the list in any order
random_shuffle(list) == random_sample(list, Len(list))

\* mutant: the sample's own answer stays among the examples of its grade
RECURSIVE GatherExamples_KeepOwn(_, _, _)
GatherExamples_KeepOwn(bank, log_id, grade) ==
    IF grade = options.num_classes THEN {<<<<>>, <<>>>>}
    ELSE LET examples == bank[grade]
             rest == GatherExamples_KeepOwn(bank, log_id, grade + 1)
         IN  IF examples = <<>> THEN rest
             ELSE {<<<<drawn[1]>> \o r[1], Tail(drawn) \o r[2]>> :
                      drawn \in random_sample(examples, Min(Len(examples), SampleSize)),
                      r \in rest}

\* lines 330-335: what the loop over the grades from `grade` on can gather,
\* as pairs (initial_examples, additional_examples)
RECURSIVE GatherExamples(_, _, _)
GatherExamples(bank, log_id, grade) ==
    IF grade = options.num_classes THEN {<<<<>>, <<>>>>}
    ELSE LET examples == SelectSeq(bank[grade], LAMBDA e : e.meta.problem_log_id # log_id)
             rest == GatherExamples(bank, log_id, grade + 1)
         IN  IF examples = <<>> THEN rest
             ELSE {<<<<drawn[1]>> \o r[1], Tail(drawn) \o r[2]>> :
                      drawn \in random_sample(examples, Min(Len(examples), SampleSize)),
                      r \in rest}

\* line 343
ExampleSeq(example) ==
    Concat(Concat(scaffold.example_prefix_seq, example),
           scaffold.grade_to_score_seq[example.meta.label])

\* mutant: an example that does not fit is passed over and the next one tried
RECURSIVE SelectExamples_SkipOverlong(_, _)
SelectExamples_SkipOverlong(candidates, base_len) ==
    IF candidates = <<>> THEN <<>>
    ELSE LET example_seq == ExampleSeq(Head(candidates))
         IN  IF base_len + SeqLen(example_seq) > options.max_seq_len
             THEN SelectExamples_SkipOverlong(Tail(candidates), base_len)
             ELSE <<example_seq>>
                  \o SelectExamples_SkipOverlong(Tail(candidates),
                                                 base_len + SeqLen(example_seq))

\* lines 342-347: the example blocks, in order, up to the first that would
\* exceed max_seq_len
RECURSIVE SelectExamples(_, _)
SelectExamples(candidates, base_len) ==
    IF candidates = <<>> THEN <<>>
    ELSE LET example_seq == ExampleSeq(Head(candidates))
         IN  IF base_len + SeqLen(example_seq) > options.max_seq_len THEN <<>>
             ELSE <<example_seq>>
                  \o SelectExamples(Tail(candidates), base_len + SeqLen(example_seq))

RECURSIVE ConcatAll(_, _)
ConcatAll(seq, list) ==
    IF list = <<>> THEN seq ELSE ConcatAll(Concat(seq, Head(list)), Tail(list))

\* lines 350-355
ScoringSequence(problem_sequence, blocks, answer) ==
    LET head == Concat(Concat(scaffold.qs_prefix_seq, problem_sequence), scaffold.scores_seq)
        tail == Concat(Concat(scaffold.answer_prefix_seq, answer), scaffold.cls_seq)
    IN  [Concat(ConcatAll(head, blocks), tail) EXCEPT !.meta = [label |-> answer.meta.label]]

\* mutant: the label is written to the stored sample, whose meta it replaces
GetItem_LabelsSample ==
    /\ pc \in {"built", "fetched"}
    /\ \E idx \in 0..(Len(data) - 1) :
          LET answer == data[idx + 1]
              problem_id == answer.meta.problem_id
          IN  /\ problem_id \in DOMAIN problems
              /\ \E gathered \in (IF problem_id \in DOMAIN example_bank
                                  THEN GatherExamples(example_bank[problem_id],
                                                      answer.meta.problem_log_id, 0)
                                  ELSE {<<<<>>, <<>>>>}) :
                 \E initial \in random_shuffle(gathered[1]),
                    additional \in random_shuffle(gathered[2]) :
                    LET problem_sequence == problems[problem_id]
                        base_len == SeqLen(scaffold.qs_prefix_seq) + SeqLen(problem_sequence)
                                    + SeqLen(scaffold.scores_seq)
                                    + SeqLen(scaffold.answer_prefix_seq)
                                    + SeqLen(answer) + SeqLen(scaffold.cls_seq)
                        blocks == SelectExamples(initial \o additional, base_len)
                    IN  /\ index' = idx
                        /\ initial_examples' = initial
                        /\ additional_examples' = additional
                        /\ example_sequences' = blocks
                        /\ returned' = ScoringSequence(problem_sequence, blocks, answer)
                        /\ data' = [data EXCEPT ![idx + 1].meta = [label |-> answer.meta.label]]
    /\ pc' = "fetched"
    /\ UNCHANGED <<options, text, formulas, text_chunks, text_chunk_idx, sequence,
                   num_missing_formulas, max_seq_len, batchVars, trimmed_sequences,
                   sample, int_seqs, label_seqs, pid_to_seq, problems, example_bank,
                   scaffold, inferVars, evalVars, splitVars>>

\* lines 320-355: AnswerScoringDataset.__getitem__(index), for every index
\* and every outcome of random.sample and random.shuffle
GetItem ==
    /\ pc \in {"built", "fetched"}
    /\ \E idx \in 0..(Len(data) - 1) :
          LET answer == data[idx + 1]
              problem_id == answer.meta.problem_id
          IN  /\ problem_id \in DOMAIN problems
              /\ \E gathered \in (IF problem_id \in DOMAIN example_bank
                                  THEN GatherExamples(example_bank[problem_id],
                                                      answer.meta.problem_log_id, 0)
                                  ELSE {<<<<>>, <<>>>>}) :
                 \E initial \in random_shuffle(gathered[1]),
                    additional \in random_shuffle(gathered[2]) :
                    LET problem_sequence == problems[problem_id]
                        base_len == SeqLen(scaffold.qs_prefix_seq) + SeqLen(problem_sequence)
                                    + SeqLen(scaffold.scores_seq)
                                    + SeqLen(scaffold.answer_prefix_seq)
                                    + SeqLen(answer) + SeqLen(scaffold.cls_seq)
                        blocks == SelectExamples(initial \o additional, base_len)
                    IN  /\ index' = idx
                        /\ initial_examples' = initial
                        /\ additional_examples' = additional
                        /\ example_sequences' = blocks
                        /\ returned' = ScoringSequence(problem_sequence, blocks, answer)
    /\ pc' = "fetched"
    /\ UNCHANGED <<options, text, formulas, text_chunks, text_chunk_idx, sequence,
                   num_missing_formulas, max_seq_len, data, batchVars, trimmed_sequences,
                   sample, int_seqs, label_seqs, pid_to_seq, problems, example_bank,
                   scaffold, inferVars, evalVars, splitVars>>

InitScoring ==
    /\ pc = "init"
    /\ options \in ScoringOptionSets
    /\ NoBuild
    /\ NoBatch
    /\ NoDataset
    /\ NoInfer
    /\ NoEval
    /\ NoSplit

NextScoring ==
    \/ BuildAnswerScoringDataset
    \/ GetItem

SpecScoring == InitScoring /\ [][NextScoring]_vars

-----------------------------------------------------------------------------
(* AnswerScoringDataset.__getitem__: what it returns and what it leaves *)

\* the example block of an example: prefix, example answer, its score text
Block(example) ==
    <<Scaffold.example_prefix_seq, example, Scaffold.grade_to_score_seq[example.meta.label]>>

BlockLen(example) ==
    SeqLen(Scaffold.example_prefix_seq) + SeqLen(example)
        + SeqLen(Scaffold.grade_to_score_seq[example.meta.label])

RECURSIVE Blocks(_)
Blocks(examples) ==
    IF examples = <<>> THEN <<>> ELSE Block(Head(examples)) \o Blocks(Tail(examples))

\* the sample asked for, its problem and the examples in the order tried
Answer == data[index + 1]

Candidates == initial_examples \o additional_examples

\* the length of the returned sequence without its example blocks
BaseLen ==
    SeqLen(Scaffold.qs_prefix_seq) + SeqLen(problems[Answer.meta.problem_id])
        + SeqLen(Scaffold.scores_seq) + SeqLen(Scaffold.answer_prefix_seq)
        + SeqLen(Answer) + SeqLen(Scaffold.cls_seq)

RECURSIVE BlocksLen(_, _)
BlocksLen(examples, n) ==
    IF n = 0 THEN 0 ELSE BlockLen(examples[n]) + BlocksLen(examples, n - 1)

\* the examples the bank holds for the sample's problem, the sample's own
\* log excluded
BankExamples ==
    IF Answer.meta.problem_id \notin DOMAIN example_bank THEN {}
    ELSE LET bank == example_bank[Answer.meta.problem_id]
         IN  {e \in UNION {{bank[g][k] : k \in 1..Len(bank[g])} : g \in DOMAIN bank} :
                 e.meta.problem_log_id # Answer.meta.problem_log_id}

(* C13: for every index and every outcome of the sampling, on every call,
   the sequence __getitem__ returns is at most max_seq_len long and is, in
   order: the question prefix, the stored problem, the scores listing, the
   example blocks (example prefix, an example of the bank, its score text),
   the answer prefix, the sample's answer and the classification marker, the
   scaffold verbatim; its label is the sample's grade. *)
C13_ScoringSequence ==
    pc = "fetched" =>
        LET n == Len(example_sequences)
            included == SubSeq(Candidates, 1, n)
        IN  /\ SeqLen(returned) <= options.max_seq_len
            /\ n <= Len(Candidates)
            /\ \A j \in 1..n : included[j] \in BankExamples
            /\ Channels(returned) =
                   Joined(<<Scaffold.qs_prefix_seq, problems[Answer.meta.problem_id],
                            Scaffold.scores_seq>>
                          \o Blocks(included)
                          \o <<Scaffold.answer_prefix_seq, Answer, Scaffold.cls_seq>>)
            /\ returned.meta = [label |-> Answer.meta.label]

\* a trimmed component, an example block included and another left out
C13_Witness ==
    /\ pc = "fetched"
    /\ trimmed_sequences >= 1
    /\ Len(example_sequences) >= 1
    /\ Len(example_sequences) < Len(Candidates)

(* C19: the example blocks are the candidates (the shuffled initial
   examples, at most one per grade, then the shuffled additional examples)
   taken in order up to the first whose block would push the total length
   above max_seq_len: the included examples are a prefix of that list, so an
   additional example is included only if every initial one was. *)
C19_ExampleSelection ==
    pc = "fetched" =>
        LET n == Len(example_sequences)
        IN  /\ n <= Len(Candidates)
            /\ \A j \in 1..n :
                  /\ Channels(example_sequences[j]) = Joined(Block(Candidates[j]))
                  /\ BaseLen + BlocksLen(Candidates, j) <= options.max_seq_len
            /\ n < Len(Candidates) =>
                  BaseLen + BlocksLen(Candidates, n + 1) > options.max_seq_len
            /\ \A i, j \in 1..Len(initial_examples) :
                  i # j => initial_examples[i].meta.label # initial_examples[j].meta.label
            /\ \A a \in 1..Len(additional_examples) :
                  \E i \in 1..Len(initial_examples) :
                      initial_examples[i].meta.label = additional_examples[a].meta.label
            /\ n > Len(initial_examples) =>
                  \A i \in 1..Len(initial_examples) :
                      Channels(example_sequences[i]) = Joined(Block(initial_examples[i]))

\* the first candidate that did not fit is followed by a shorter one that
\* would have fitted
C19_Witness ==
    /\ pc = "fetched"
    /\ Len(example_sequences) + 2 <= Len(Candidates)
    /\ LET n == Len(example_sequences)
       IN  BaseLen + BlocksLen(Candidates, n) + BlockLen(Candidates[n + 2])
               <= options.max_seq_len

(* C20: a __getitem__ call leaves the dataset as it was: data (the answer
   sequences and their meta), problems, example_bank and the static
   sequences are the same after the call as before, whatever the index and
   the order of the calls. *)
C20_GetItemFrame ==
    [][pc' = "fetched" =>
          /\ data' = data
          /\ problems' = problems
          /\ example_bank' = example_bank
          /\ scaffold' = scaffold
          /\ scaffold' = Scaffold]_vars

\* a second call on a dataset, for another index than the first
C20_Witness ==
    /\ pc = "fetched"
    /\ index = 1
    /\ Len(data) >= 2
    /\ Len(example_sequences) >= 1
    /\ data[2].meta.problem_log_id = 2

-----------------------------------------------------------------------------
(* loading.py: GenTaskDataset and FeedbackDataset *)

\* most sequences a generative dataset stores before its samples end
MaxGenData == 2
\* largest options.max_seq_len of a generative dataset
MaxGenLen == 12

\* constants.py: the subwords of the formula delimiters of baseline mode
START_FORM_TEXT_TOKS == {InputIds("<m>")}

END_FORM_TEXT_TOK == InputIds("</m>")

\* next((value(idx) for idx in 0 .. n - 1 if Cond(idx)), None), as <<value>>
\* or None
FirstWhere(n, Cond(_), Value(_)) ==
    LET found == {idx \in 0..(n - 1) : Cond(idx)}
    IN  IF found = {} THEN None
        ELSE <<Value(CHOOSE idx \in found : \A other \in found : idx <= other)>>

\* lines 184-205: where the next label region starts
StartIdx(label_sequence) ==
    LET ids == label_sequence.token_ids
        types == label_sequence.token_types
    IN  IF options.eval_formulas
        THEN IF options.baseline
             THEN FirstWhere(SeqLen(label_sequence) - 2,
                             LAMBDA idx : PySlice(ids, idx, idx + 3) \in START_FORM_TEXT_TOKS,
                             LAMBDA idx : idx + 3)
             ELSE FirstWhere(SeqLen(label_sequence),
                             LAMBDA idx : types[idx + 1] = START_FORMULA,
                             LAMBDA idx : idx + 1)
        ELSE IF options.baseline
             THEN FirstWhere(SeqLen(label_sequence) - 2,
                             LAMBDA idx : PySlice(ids, idx, idx + 3) = END_FORM_TEXT_TOK,
                             LAMBDA idx : idx + 3)
             ELSE FirstWhere(SeqLen(label_sequence),
                             LAMBDA idx : types[idx + 1] = END_FORMULA,
                             LAMBDA idx : idx + 1)

\* lines 210-231: where the label region ends; in eval_text mode the default
\* is the end of the sequence
EndIdx(headline_end) ==
    LET ids == headline_end.token_ids
        types == headline_end.token_types
        found ==
            IF options.eval_formulas
            THEN IF options.baseline
                 THEN FirstWhere(SeqLen(headline_end) - 2,
                                 LAMBDA idx : PySlice(ids, idx, idx + 3) = END_FORM_TEXT_TOK,
                                 LAMBDA idx : idx + 3)
                 ELSE FirstWhere(SeqLen(headline_end),
                                 LAMBDA idx : types[idx + 1] = END_FORMULA,
                                 LAMBDA idx : idx + 1)
            ELSE IF options.baseline
                 THEN FirstWhere(SeqLen(headline_end) - 2,
                                 LAMBDA idx : PySlice(ids, idx, idx + 3) \in START_FORM_TEXT_TOKS,
                                 LAMBDA idx : idx + 3)
                 ELSE FirstWhere(SeqLen(headline_end),
                                 LAMBDA idx : types[idx + 1] = START_FORMULA,
                                 LAMBDA idx : idx + 1)
    IN  IF found = None /\ ~options.eval_formulas THEN <<SeqLen(headline_end)>> ELSE found

\* lines 183-237: the while loop from the given intermediate and label
\* sequence on, as (int_seqs, label_seqs). The tokenizer closes every formula
\* it opens, so in eval_formulas mode the end of a region is always found.
RECURSIVE LabelRegions(_, _)
LabelRegions(intermediate_sequence, label_sequence) ==
    LET start_idx == StartIdx(label_sequence)
    IN  IF start_idx = None THEN <<<<>>, <<>>>>
        ELSE LET headline == split_at(label_sequence, start_idx[1])
                 intermediate == Concat(intermediate_sequence, headline[1])
                 end_idx == EndIdx(headline[2])
                 parts == split_at(headline[2], end_idx[1])
                 cur_label_sequence == parts[1]
             IN  IF options.eval_text /\ SeqLen(cur_label_sequence) <= 2
                 THEN <<<<>>, <<>>>>
                 ELSE LET rest == LabelRegions(Concat(intermediate, cur_label_sequence),
                                               parts[2])
                      IN  <<<<intermediate>> \o rest[1], <<cur_label_sequence>> \o rest[2]>>

\* mutant: the intermediate sequence is left out of the count
Overflow_NoIntermediate(prompt_sequence, intermediate_sequence, label_sequence) ==
    SeqLen(prompt_sequence) + SeqLen(label_sequence) - options.max_seq_len

\* lines 245, 384
Overflow(prompt_sequence, intermediate_sequence, label_sequence) ==
    SeqLen(prompt_sequence) + SeqLen(intermediate_sequence) + SeqLen(label_sequence)
        - options.max_seq_len

\* lines 243-255 (and 384-394 for one pair): the sequences stored for the
\* pairs from k on, the prompt trimmed whenever the three parts overflow:
\* <<[stored, trimmed]>>, or None when split_sequence(...)[0] raises
RECURSIVE StoreSequences(_, _, _, _)
StoreSequences(prompt_sequence, ints, labs, k) ==
    IF k > Len(ints) \/ k > Len(labs) THEN <<[stored |-> <<>>, trimmed |-> 0]>>
    ELSE LET overflow == Overflow(prompt_sequence, ints[k], labs[k])
             first == IF overflow > 0
                      THEN FirstSplit(prompt_sequence, SeqLen(prompt_sequence) - overflow)
                      ELSE <<prompt_sequence>>
         IN  IF first = None THEN None
             ELSE LET prompt == first[1]
                      stored_sequence ==
                          [Concat(Concat(prompt, ints[k]), labs[k])
                              EXCEPT !.meta = [prompt_length |->
                                                  SeqLen(prompt) + SeqLen(ints[k])]]
                      rest == StoreSequences(prompt, ints, labs, k + 1)
                  IN  IF rest = None THEN None
                      ELSE <<[stored |-> <<stored_sequence>> \o rest[1].stored,
                              trimmed |-> (IF overflow > 0 THEN 1 ELSE 0)
                                          + rest[1].trimmed]>>

\* further texts: a placeholder whose formula is missing, a bare word, and
\* two formulas in a row
MissingText == [text |-> <<"a", FORMULA_IDENTIFIER>>, formulas |-> <<>>]

WordText == [text |-> <<"b">>, formulas |-> <<>>]

TwoFormulaText ==
    [text |-> <<"a", FORMULA_IDENTIFIER, FORMULA_IDENTIFIER>>,
     formulas |-> [key \in {"0", "1"} |->
                      [tex |-> <<"x">>, opt |-> Var(20 + KeyIndex(key))]]]

GenSamples ==
    [prompt : {ShortText, LongText, MissingText},
     label : {WordText, LongText, TwoFormulaText}]

FeedbackProblems == {[pid \in {1} |-> t] : t \in {ShortText, LongText}}

FeedbackSamples ==
    [problem_id : {1}, answer : {ShortText, MissingText}, feedback : {WordText, LongText}]

GenBudgets == {MaxGenLen - 8, MaxGenLen - 4, MaxGenLen}

GenOptionSets ==
    [baseline : BOOLEAN, post_proc : {FALSE}, shared_emb : {FALSE}, tpe : {TPE_NONE},
     eval_formulas : BOOLEAN, eval_text : BOOLEAN, max_seq_len : GenBudgets]

\* lines 167-255: GenTaskDataset.__init__, one sample of the loop; index
\* counts the samples taken from the list
AddGenSample ==
    /\ pc = "gen"
    /\ index < MaxGenData
    /\ index' = index + 1
    /\ \E smp \in GenSamples :
       \E prompt \in {tokenize_sequence("", <<"Question:">> \o smp.prompt.text,
                                        smp.prompt.formulas)} :
       \E intermediate_sequence \in {tokenize_sequence("", <<"[SEP]", "Summary:">>, <<>>)[1]} :
       \E label \in {tokenize_sequence("", smp.label.text \o <<"<eos>">>,
                                       smp.label.formulas)} :
       \E regions \in {IF options.eval_formulas \/ options.eval_text
                       THEN LabelRegions(intermediate_sequence, label[1])
                       ELSE <<<<intermediate_sequence>>, <<label[1]>>>>} :
       \E result \in {StoreSequences(prompt[1], regions[1], regions[2], 1)} :
              IF result = None
              THEN \* split_sequence(...)[0] raised: no dataset
                   /\ pc' = "raised"
                   /\ UNCHANGED <<data, num_missing_formulas, trimmed_sequences, sample,
                                  int_seqs, label_seqs>>
              ELSE /\ sample' = smp
                   /\ int_seqs' = regions[1]
                   /\ label_seqs' = regions[2]
                   /\ data' = data \o result[1].stored
                   /\ trimmed_sequences' = trimmed_sequences + result[1].trimmed
                   /\ num_missing_formulas' = num_missing_formulas + prompt[2] + label[2]
                   /\ pc' = "gen"
    /\ UNCHANGED <<options, text, formulas, text_chunks, text_chunk_idx, sequence,
                   max_seq_len, batchVars, pid_to_seq, problems, example_bank, scaffold,
                   initial_examples, additional_examples, example_sequences,
                   returned, inferVars, evalVars, splitVars>>

\* lines 364-369: FeedbackDataset.__init__, the problems
ProcessFeedbackProblems ==
    /\ pc = "feedback_problems"
    /\ \E probs \in FeedbackProblems :
          LET tokenized == [pid \in DOMAIN probs |->
                               tokenize_sequence("", <<"Question:">> \o probs[pid].text,
                                                 probs[pid].formulas)]
          IN  /\ pid_to_seq' = [pid \in DOMAIN probs |-> tokenized[pid][1]]
              /\ num_missing_formulas' = num_missing_formulas + tokenized[1][2]
    /\ pc' = "feedback"
    /\ UNCHANGED <<options, text, formulas, text_chunks, text_chunk_idx, sequence,
                   max_seq_len, data, batchVars, trimmed_sequences, sample, int_seqs,
                   label_seqs, problems, example_bank, scaffold, index, initial_examples,
                   additional_examples, example_sequences, returned, inferVars, evalVars, splitVars>>

\* lines 372-394: FeedbackDataset.__init__, one sample of the loop; int_seqs
\* and label_seqs hold its answer and its feedback sequence, index counts the
\* samples taken from the list
AddFeedbackSample ==
    /\ pc = "feedback"
    /\ index < MaxGenData
    /\ index' = index + 1
    /\ \E smp \in FeedbackSamples :
          LET problem_sequence == pid_to_seq[smp.problem_id]
              answer == tokenize_sequence("", <<"[SEP]", "Answer:">> \o smp.answer.text
                                                  \o <<"[SEP]", "Feedback:">>,
                                          smp.answer.formulas)
              feedback == tokenize_sequence("", smp.feedback.text \o <<"<eos>">>,
                                            smp.feedback.formulas)
              result == StoreSequences(problem_sequence, <<answer[1]>>, <<feedback[1]>>, 1)
          IN  IF result = None
              THEN /\ pc' = "raised"
                   /\ UNCHANGED <<data, num_missing_formulas, trimmed_sequences, sample,
                                  int_seqs, label_seqs>>
              ELSE /\ sample' = smp
                   /\ int_seqs' = <<answer[1]>>
                   /\ label_seqs' = <<feedback[1]>>
                   /\ data' = data \o result[1].stored
                   /\ trimmed_sequences' = trimmed_sequences + result[1].trimmed
                   /\ num_missing_formulas' = num_missing_formulas + answer[2] + feedback[2]
                   /\ pc' = "feedback"
    /\ UNCHANGED <<options, text, formulas, text_chunks, text_chunk_idx, sequence,
                   max_seq_len, batchVars, pid_to_seq, problems, example_bank, scaffold,
                   initial_examples, additional_examples, example_sequences,
                   returned, inferVars, evalVars, splitVars>>

InitGen ==
    /\ pc \in {"gen", "feedback_problems"}
    /\ options \in GenOptionSets
    /\ NoBuild
    /\ NoBatch
    /\ NoDataset
    /\ NoInfer
    /\ NoEval
    /\ NoSplit

NextGen ==
    \/ AddGenSample
    \/ ProcessFeedbackProblems
    \/ AddFeedbackSample

SpecGen == InitGen /\ [][NextGen]_vars

-----------------------------------------------------------------------------
(* GenTaskDataset and FeedbackDataset: what is trimmed *)

\* the earliest component of the sample as tokenized, before any trimming
EarliestComponent(kind, smp) ==
    IF kind = "gen"
    THEN tokenize_sequence("", <<"Question:">> \o smp.prompt.text, smp.prompt.formulas)[1]
    ELSE pid_to_seq[smp.problem_id]

\* the part of a stored sequence before its middle and its label
StoredPrompt(stored, middle, label) ==
    Window(stored, 1, SeqLen(stored) - SeqLen(middle) - SeqLen(label))

(* C14: in GenTaskDataset and FeedbackDataset every sequence a sample stores
   is at most max_seq_len long, ends with the unmodified middle component and
   the unmodified label (or feedback), and has meta.prompt_length =
   len(sequence) - len(label); its first component is the one of the sequence
   stored before it (the tokenized prompt or problem for the first) when the
   three do not overflow and a shorter one when they do, and
   trimmed_sequences grows by one for each sequence that overflowed. *)
C14_OnlyEarliestTrimmed ==
    [][(pc \in {"gen", "feedback"} /\ pc' = pc) =>
          LET old == Len(data)
              k == Len(data') - old
              Prompt(i) == IF i = 0 THEN Channels(EarliestComponent(pc, sample'))
                           ELSE StoredPrompt(data'[old + i], int_seqs'[i], label_seqs'[i])
              Over(i) == Len(Prompt(i - 1)[1]) + SeqLen(int_seqs'[i])
                             + SeqLen(label_seqs'[i]) - options.max_seq_len
          IN  /\ k >= 0
              /\ SubSeq(data', 1, old) = data
              /\ k = 0 => trimmed_sequences' = trimmed_sequences
              /\ k > 0 =>
                    /\ k = Len(label_seqs')
                    /\ k = Len(int_seqs')
                    /\ \A i \in 1..k :
                          LET stored == data'[old + i]
                              n == SeqLen(stored)
                              label == label_seqs'[i]
                              middle == int_seqs'[i]
                          IN  /\ n <= options.max_seq_len
                              /\ Window(stored, n - SeqLen(label) + 1, n) = Channels(label)
                              /\ Window(stored, n - SeqLen(label) - SeqLen(middle) + 1,
                                        n - SeqLen(label)) = Channels(middle)
                              /\ stored.meta.prompt_length = n - SeqLen(label)
                              /\ Over(i) <= 0 => Prompt(i) = Prompt(i - 1)
                              /\ Over(i) > 0 => Len(Prompt(i)[1]) < Len(Prompt(i - 1)[1])
                    /\ trimmed_sequences' =
                           trimmed_sequences + Cardinality({i \in 1..k : Over(i) > 0})]_vars

\* a sample stored two sequences, the first with its prompt trimmed, and a
\* feedback sample had its problem trimmed
C14_Witness ==
    \/ /\ pc = "gen"
       /\ Len(data) = 2
       /\ Len(label_seqs) = 2
       /\ trimmed_sequences = 1
       /\ SeqLen(data[1]) = options.max_seq_len
    \/ /\ pc = "feedback"
       /\ Len(data) = 1
       /\ trimmed_sequences = 1
       /\ SeqLen(data[1]) <= options.max_seq_len

-----------------------------------------------------------------------------
(* Collator.__call__: the values at padded positions *)

\* the collation on its own
SpecPad == InitCollate /\ [][CollateBatch]_vars

\* the positions of row i of a collated batch past the end of sequence i
PaddedPositions(i) == (SeqLen(seq_batch[i]) + 1)..MaxLen

\* the ids a real token carries: an index into a vocabulary
RealTokenIds == Nat

(* C15 as stated: in a collated batch the token_ids value and the
   token_types value at every padded position differ from every id and every
   type a real token can carry, so either of them tells a padded position
   from a real one. *)
C15_PaddingSentinels ==
    pc = "collated" =>
        \A i \in 1..Len(seq_batch) : \A j \in PaddedPositions(i) :
            /\ batch.token_ids[i][j] \notin RealTokenIds
            /\ batch.token_types[i][j] \notin TokenType

(* C15, amended: in a collated batch every real position carries an id >= 0
   and a type of TokenType, and every padded position carries
   PADDING_TOKEN_ID, which no real token carries, and the type TEXT, which
   real text tokens carry too; so a position is padded exactly if its
   token_ids value is PADDING_TOKEN_ID, and token_types does not tell. *)
C15_PaddingByIdOnly ==
    pc = "collated" =>
        \A i \in 1..Len(seq_batch) :
            /\ Len(batch.token_ids[i]) = MaxLen
            /\ Len(batch.token_types[i]) = MaxLen
            /\ \A j \in 1..SeqLen(seq_batch[i]) :
                  /\ batch.token_ids[i][j] \in RealTokenIds
                  /\ batch.token_ids[i][j] # PADDING_TOKEN_ID
                  /\ batch.token_types[i][j] \in TokenType
            /\ \A j \in PaddedPositions(i) :
                  /\ batch.token_ids[i][j] = PADDING_TOKEN_ID
                  /\ batch.token_types[i][j] = TEXT

\* a collated batch with a padded position, a real TEXT token and a formula
\* marker, whose id is 0
C15_Witness ==
    /\ pc = "collated"
    /\ \E i \in 1..Len(seq_batch) : PaddedPositions(i) # {}
    /\ \E i \in 1..Len(seq_batch) : \E j \in 1..SeqLen(seq_batch[i]) :
          batch.token_types[i][j] = TEXT
    /\ \E i \in 1..Len(seq_batch) : \E j \in 1..SeqLen(seq_batch[i]) :
          /\ batch.token_types[i][j] = START_FORMULA
          /\ batch.token_ids[i][j] = 0

-----------------------------------------------------------------------------
(* generate.py: infer_math_pos, from the cases of tests/test_generate.py *)

MaxPos == 6

MaxArity == 2

\* a token's position when the formula is over
FinishedPos == <<Repeat(0, Len(EMPTY_POS_VECTOR)), 0>>

\* case 1: OP leads to child
AfterOp(pos_vec, pos_level) == <<pos_vec, pos_level + 1>>

\* cases 2, 3: VAR and NUM lead to the sibling
AfterLeaf(pos_vec, pos_level) ==
    <<[pos_vec EXCEPT ![pos_level + 1] = @ + 1], pos_level>>

\* mutant: the position below the closed operator is kept
AfterEnd_NoReset(pos_vec, pos_level) ==
    <<[pos_vec EXCEPT ![pos_level] = @ + 1], pos_level - 1>>

\* case 4: END leads to the parent's sibling
AfterEnd(pos_vec, pos_level) ==
    <<[pos_vec EXCEPT ![pos_level + 1] = 0, ![pos_level] = @ + 1], pos_level - 1>>

\* one row; cases 5, 6: a move that ends at level 0 ends the formula
NextMathPos(pos_vec, pos_level, token_type) ==
    LET moved == CASE token_type = OP -> AfterOp(pos_vec, pos_level)
                   [] token_type \in {VAR, NUM} -> AfterLeaf(pos_vec, pos_level)
                   [] token_type = END -> AfterEnd(pos_vec, pos_level)
    IN  IF moved[2] = 0 THEN FinishedPos ELSE moved

\* infer_math_pos(prev_pos_vecs, prev_pos_levels, prev_token_types):
\* (new_pos_vecs, new_pos_levels), row by row
infer_math_pos(pos_vecs, pos_levels, token_types) ==
    LET rows == [i \in 1..Len(token_types) |->
                    NextMathPos(pos_vecs[i], pos_levels[i], token_types[i])]
    IN  [pos_vecs |-> [i \in 1..Len(rows) |-> rows[i][1]],
         pos_levels |-> [i \in 1..Len(rows) |-> rows[i][2]]]

\* tests/test_generate.py, lines 14-37: the batch of the test
TestBatch ==
    [pos_vecs |-> <<<<0, 0, 0>>, <<0, 1, 0>>, <<0, 3, 1>>, <<0, 5, 3>>, <<0, 0, 0>>,
                    <<0, 2, 0>>>>,
     pos_levels |-> <<0, 1, 2, 2, 0, 1>>,
     token_types |-> <<OP, VAR, NUM, END, VAR, END>>]

\* lines 40-55: what the test expects of it
TestExpected ==
    [pos_vecs |-> <<<<0, 0, 0>>, <<0, 2, 0>>, <<0, 3, 2>>, <<0, 6, 0>>, <<0, 0, 0>>,
                    <<0, 0, 0>>>>,
     pos_levels |-> <<1, 1, 2, 1, 0, 0>>]

\* the positions a formula token can have: nothing below its level, an
\* operator above the last level, an END below the root
InferRows ==
    {r \in [pos_vec : [1..Len(EMPTY_POS_VECTOR) -> 0..MaxPos],
            pos_level : 0..(Len(EMPTY_POS_VECTOR) - 1),
            token_type : {OP, VAR, NUM, END}] :
        /\ r.pos_vec[1] = 0
        /\ \A l \in 1..Len(EMPTY_POS_VECTOR) : l > r.pos_level + 1 => r.pos_vec[l] = 0
        /\ r.token_type = OP => r.pos_level < Len(EMPTY_POS_VECTOR) - 1
        /\ r.token_type = END => r.pos_level >= 1}

BatchOf(rows) ==
    [pos_vecs |-> [i \in 1..Len(rows) |-> rows[i].pos_vec],
     pos_levels |-> [i \in 1..Len(rows) |-> rows[i].pos_level],
     token_types |-> [i \in 1..Len(rows) |-> rows[i].token_type]]

\* the formula trees as deep as the position vector allows
RECURSIVE Trees(_)
Trees(depth) ==
    IF depth = 0 THEN {Var(40), Num(50)}
    ELSE Trees(depth - 1)
            \cup {Op(30, children) :
                     children \in UNION {[1..k -> Trees(depth - 1)] : k \in 0..MaxArity}}

\* a formula's tokens as a sequence
FormulaRun(opt) == AppendFormula(Sequence(""), tokenize_formula(opt, options))

InferOptionSets ==
    [baseline : {FALSE}, post_proc : {FALSE}, shared_emb : {FALSE}, tpe : {TPE_NONE}]

\* the batch is the test's, one or two rows, or the tokens of one formula,
\* which sequence then holds
InitInfer ==
    /\ pc = "infer"
    /\ options \in InferOptionSets
    /\ text = <<>>
    /\ formulas = <<>>
    /\ text_chunks = <<>>
    /\ text_chunk_idx = 0
    /\ num_missing_formulas = 0
    /\ max_seq_len = 0
    /\ data = <<>>
    /\ NoBatch
    /\ NoDataset
    /\ NoEval
    /\ NoSplit
    /\ new_pos = None
    /\ \/ /\ sequence = Sequence("")
          /\ \E b \in {TestBatch} \cup {BatchOf(<<r>>) : r \in InferRows}
                      \cup {BatchOf(<<r, q>>) :
                               r, q \in {x \in InferRows : x.pos_level <= 1}} :
                /\ prev_pos_vecs = b.pos_vecs
                /\ prev_pos_levels = b.pos_levels
                /\ prev_token_types = b.token_types
       \/ /\ sequence \in {FormulaRun(opt) : opt \in Trees(Len(EMPTY_POS_VECTOR) - 1)}
          /\ prev_pos_vecs = sequence.pos_vecs
          /\ prev_pos_levels = sequence.pos_levels
          /\ prev_token_types = sequence.token_types

InferMathPos ==
    /\ pc = "infer"
    /\ new_pos' = infer_math_pos(prev_pos_vecs, prev_pos_levels, prev_token_types)
    /\ pc' = "inferred"
    /\ UNCHANGED <<options, buildVars, batchVars, datasetVars, evalVars, splitVars, prev_pos_vecs,
                   prev_pos_levels, prev_token_types>>

SpecInfer == InitInfer /\ [][InferMathPos]_vars

(* C16: for every row of the batch on its own, infer_math_pos gives after OP
   the level + 1 with the pos_vec unchanged; after VAR or NUM at level >= 1
   the same level with pos_vec[level] one higher; after END at level >= 2
   the level - 1 with pos_vec[level] reset to 0 and pos_vec[level - 1] one
   higher; after VAR or NUM at level 0 and after END at level 1 level 0 with
   an all-zero pos_vec. On the tokens of a formula that is the position of
   the token that follows, and on the batch of the test what the test
   expects. *)
C16_InferMathPos ==
    pc = "inferred" =>
        /\ Len(new_pos.pos_vecs) = Len(prev_token_types)
        /\ Len(new_pos.pos_levels) = Len(prev_token_types)
        /\ \A i \in 1..Len(prev_token_types) :
              LET vec == prev_pos_vecs[i]
                  level == prev_pos_levels[i]
                  type == prev_token_types[i]
                  new_vec == new_pos.pos_vecs[i]
                  new_level == new_pos.pos_levels[i]
                  \* position l of the vector, counted from 0
                  SameBut(changed) ==
                      \A l \in 0..(Len(vec) - 1) :
                          l \notin changed => new_vec[l + 1] = vec[l + 1]
              IN  /\ Len(new_vec) = Len(vec)
                  /\ type = OP => new_level = level + 1 /\ new_vec = vec
                  /\ (type \in {VAR, NUM} /\ level >= 1) =>
                        /\ new_level = level
                        /\ new_vec[level + 1] = vec[level + 1] + 1
                        /\ SameBut({level})
                  /\ (type = END /\ level >= 2) =>
                        /\ new_level = level - 1
                        /\ new_vec[level + 1] = 0
                        /\ new_vec[level] = vec[level] + 1
                        /\ SameBut({level, level - 1})
                  /\ ((type \in {VAR, NUM} /\ level = 0) \/ (type = END /\ level = 1)) =>
                        /\ new_level = 0
                        /\ \A l \in 1..Len(new_vec) : new_vec[l] = 0
                  /\ infer_math_pos(<<vec>>, <<level>>, <<type>>) =
                         [pos_vecs |-> <<new_vec>>, pos_levels |-> <<new_level>>]
        /\ SeqLen(sequence) > 0 =>
              \A i \in 1..SeqLen(sequence) :
                  <<new_pos.pos_vecs[i], new_pos.pos_levels[i]>> =
                      (IF i < SeqLen(sequence)
                       THEN <<sequence.pos_vecs[i + 1], sequence.pos_levels[i + 1]>>
                       ELSE FinishedPos)
        /\ <<prev_pos_vecs, prev_pos_levels, prev_token_types>> =
               <<TestBatch.pos_vecs, TestBatch.pos_levels, TestBatch.token_types>>
              => new_pos = TestExpected

\* infer_math_pos ran on the batch of the test, and on the tokens of a
\* formula with an operator below the root that closes before the root does
C16_Witness ==
    /\ pc = "inferred"
    /\ \/ prev_pos_vecs = TestBatch.pos_vecs /\ prev_token_types = TestBatch.token_types
       \/ /\ SeqLen(sequence) > 0
          /\ \E i \in 1..Len(prev_token_types) :
                prev_token_types[i] = END /\ prev_pos_levels[i] = 2

-----------------------------------------------------------------------------
(* evaluate.py: evaluate_lm, the windows over one sequence *)

MaxEvalLen == 4

EvalOptionSets ==
    [baseline : {FALSE}, post_proc : {FALSE}, shared_emb : {FALSE}, tpe : {TPE_NONE},
     stride : 0..MaxEvalLen, max_seq_len : 1..MaxEvalLen]

\* the dataset's sequences: the first n tokens of Master
EvalSequences == {split_at(Master, n)[1] : n \in 1..MaxEvalLen}

\* lines 25-29, 36: the data loader hands over one sequence at a time
InitEval ==
    /\ pc = "eval"
    /\ options \in EvalOptionSets
    /\ NoBuild
    /\ NoDataset
    /\ NoInfer
    /\ NoEval
    /\ NoSplit
    /\ task = NO_TASK
    /\ seq_batch \in {<<seq>> : seq \in EvalSequences}
    /\ batch = None
    /\ sub_seq_batch = None
    /\ trims = <<>>

\* lines 32, 36-37: the next batch of the loader, collated for no task
EvaluateBatch ==
    /\ pc = "eval"
    /\ stride' = (IF options.stride # 0 THEN options.stride ELSE options.max_seq_len)
    /\ batch' = Collate(seq_batch)
    /\ sequence_length' = Len(batch'.token_ids[1])
    /\ split_point' = 0
    /\ pc' = "window"
    /\ UNCHANGED <<options, buildVars, datasetVars, inferVars, splitVars, task, seq_batch,
                   sub_seq_batch, trims, labels, nlls>>

\* lines 48-49: a copy of the window's token ids with [:, :-target_len] set
\* to the padding id
MaskedLabels(token_ids, target_len) ==
    [i \in 1..Len(token_ids) |->
        LET row == token_ids[i]
            masked == Len(PySlice(row, 0, -target_len))
        IN  [j \in 1..Len(row) |-> IF j <= masked THEN PADDING_TOKEN_ID ELSE row[j]]]

\* lines 42-56: one pass of the loop over range(0, sequence_length, stride);
\* nlls keeps the window and the factor of each loss
ScoreWindow ==
    /\ pc = "window"
    /\ split_point < sequence_length
    /\ LET start_idx == Max(split_point + stride - options.max_seq_len, 0)
           end_idx == Min(split_point + stride, sequence_length)
           target_len == end_idx - split_point
       IN  /\ sub_seq_batch' = trim_batch(batch, start_idx, end_idx)
           /\ trims' = <<<<start_idx, end_idx>>>>
           /\ labels' = MaskedLabels(sub_seq_batch'.token_ids, target_len)
           /\ nlls' = Append(nlls, [split_point |-> split_point, start_idx |-> start_idx,
                                    end_idx |-> end_idx, target_len |-> target_len,
                                    labels |-> labels'])
    /\ split_point' = split_point + stride
    /\ pc' = (IF split_point' < sequence_length THEN "window" ELSE "evaluated")
    /\ UNCHANGED <<options, buildVars, datasetVars, inferVars, splitVars, task, seq_batch, batch,
                   stride, sequence_length>>

NextEval ==
    \/ EvaluateBatch
    \/ ScoreWindow

SpecEval == InitEval /\ [][NextEval]_vars

\* the columns of the whole sequence whose token counts toward the loss of
\* window w: those of the window that the labels leave unmasked
CountedColumns(w) ==
    {w.start_idx + j - 1 : j \in {j \in 1..Len(w.labels[1]) :
                                     w.labels[1][j] # PADDING_TOKEN_ID}}

(* C17: in evaluate_lm, for every sequence length, stride and max_seq_len
   from 1 on, each window is at most max_seq_len long, each target region
   [split_point, end_idx) lies in its window [start_idx, end_idx), the target
   regions follow one another without gap or overlap from 0 to the sequence
   length, the tokens a window counts toward the loss are those of its
   target region, and the target lengths add up to the sequence length. *)
C17_WindowsCountEachTokenOnce ==
    pc \in {"window", "evaluated"} =>
        /\ \A k \in 1..Len(nlls) :
              LET w == nlls[k]
              IN  /\ w.end_idx - w.start_idx <= options.max_seq_len
                  /\ w.start_idx <= w.split_point
                  /\ w.split_point < w.end_idx
                  /\ w.split_point = (IF k = 1 THEN 0 ELSE nlls[k - 1].end_idx)
                  /\ w.target_len = w.end_idx - w.split_point
                  /\ CountedColumns(w) = w.split_point..(w.end_idx - 1)
        /\ pc = "evaluated" =>
              /\ nlls[Len(nlls)].end_idx = sequence_length
              /\ UNION {CountedColumns(nlls[k]) : k \in 1..Len(nlls)}
                     = 0..(sequence_length - 1)

-----------------------------------------------------------------------------
(* loading.py: split_sequence, one action per call of the recursion *)

MaxCallLen == 6

\* a sequence with the given token types; the ids number the tokens
TypedSequence(types) ==
    [Sequence("") EXCEPT !.token_ids = [i \in 1..Len(types) |-> i],
                         !.token_types = types,
                         !.pos_vecs = [i \in 1..Len(types) |-> EMPTY_POS_VECTOR],
                         !.pos_levels = [i \in 1..Len(types) |-> 0]]

\* every sequence of text and formula tokens up to the bound, whether a
\* tokenizer would build it or not
SplitInputs ==
    {TypedSequence(types) : types \in UNION {[1..n -> {TEXT, VAR}] : n \in 0..MaxCallLen}}

SplitOptionSets ==
    [baseline : {FALSE}, post_proc : {FALSE}, shared_emb : {FALSE}, tpe : {TPE_NONE}]

\* split_sequence(sequence, max_seq_len) is called
InitSplit ==
    /\ pc = "split"
    /\ options \in SplitOptionSets
    /\ text = <<>>
    /\ formulas = <<>>
    /\ text_chunks = <<>>
    /\ text_chunk_idx = 0
    /\ num_missing_formulas = 0
    /\ data = <<>>
    /\ NoBatch
    /\ NoDataset
    /\ NoInfer
    /\ NoEval
    /\ sequence \in SplitInputs
    /\ max_seq_len \in 1..(MaxCallLen + 1)
    /\ post_split = sequence
    /\ recursion_depth = 0

\* lines 22-47: the body of one call on post_split. data collects the
\* sub-sequences in the order of the returned list; the call either returns
\* or makes the one recursive call of its branch.
SplitCall ==
    /\ pc = "split"
    /\ IF SeqLen(post_split) <= max_seq_len
       THEN /\ data' = data \o ReturnWhole(post_split)
            /\ pc' = "split_done"
            /\ UNCHANGED <<post_split, recursion_depth>>
       ELSE IF SplitPointIsText(post_split, max_seq_len)
       THEN /\ data' = Append(data, TextBoundaryCut(post_split, max_seq_len)[1])
            /\ post_split' = TextBoundaryCut(post_split, max_seq_len)[2]
            /\ recursion_depth' = recursion_depth + 1
            /\ pc' = "split"
       ELSE IF PyNot(PreFormTextTokId(post_split, max_seq_len))
       THEN IF PyNot(EndOfForm(post_split, max_seq_len))
            THEN /\ pc' = "split_done"
                 /\ UNCHANGED <<data, post_split, recursion_depth>>
            ELSE /\ post_split' =
                        split_at(post_split, EndOfForm(post_split, max_seq_len)[1])[2]
                 /\ recursion_depth' = recursion_depth + 1
                 /\ pc' = "split"
                 /\ UNCHANGED data
       ELSE /\ data' = Append(data, PreFormulaCut(
                                  post_split, PreFormTextTokId(post_split, max_seq_len)[1])[1])
            /\ post_split' = PreFormulaCut(
                                 post_split, PreFormTextTokId(post_split, max_seq_len)[1])[2]
            /\ recursion_depth' = recursion_depth + 1
            /\ pc' = "split"
    /\ UNCHANGED <<options, text, formulas, text_chunks, text_chunk_idx, sequence,
                   num_missing_formulas, max_seq_len, batchVars, datasetVars, inferVars,
                   evalVars>>

\* a call that was made runs to its return or to its recursive call
SpecSplit == InitSplit /\ [][SplitCall]_vars /\ WF_vars(SplitCall)

(* C21: for every sequence and every limit L >= 1 split_sequence terminates.
   Every recursive call is on a strictly shorter sequence, a suffix of its
   caller's: the cut at a TEXT split point removes L tokens, the cut after a
   preceding TEXT token removes at least 2, the cut that skips a formula
   removes more than L; the number of recursive calls never exceeds
   len(S), and the calls return what split_sequence(S, L) is. *)
C21_SplitTerminates ==
    /\ [][(pc = "split" /\ pc' = "split") =>
             LET removed == SeqLen(post_split) - SeqLen(post_split')
             IN  /\ recursion_depth' = recursion_depth + 1
                 /\ removed >= 1
                 /\ Channels(post_split') =
                        Window(post_split, removed + 1, SeqLen(post_split))
                 /\ IF SplitPointIsText(post_split, max_seq_len)
                    THEN removed = max_seq_len
                    ELSE IF Len(data') = Len(data) + 1
                    THEN removed >= 2
                    ELSE data' = data /\ removed > max_seq_len]_vars
    /\ [](pc \in {"split", "split_done"} =>
             /\ max_seq_len >= 1
             /\ recursion_depth <= SeqLen(sequence)
             /\ pc = "split_done" => data = split_sequence(sequence, max_seq_len))
    /\ <>(pc = "split_done")

\* a split that returned after three or more recursive calls, at least one of
\* which skipped a formula, with two sub-sequences cut off on the way
C21_Witness ==
    /\ pc = "split_done"
    /\ recursion_depth >= 3
    /\ Len(data) = 2
    /\ SeqLen(post_split) > 0

-----------------------------------------------------------------------------
(* loading.py: trim_batch applied again and again *)

MaxTrims == 2

TrimOptionSets ==
    [baseline : {FALSE}, post_proc : {FALSE}, shared_emb : {FALSE}, tpe : {TPE_NONE}]

\* a batch of sequences for no task, not yet collated
InitTrim ==
    /\ pc = "batch"
    /\ NoBuild
    /\ NoDataset
    /\ NoInfer
    /\ NoEval
    /\ NoSplit
    /\ options \in TrimOptionSets
    /\ task = NO_TASK
    /\ seq_batch \in SeqBatches
    /\ batch = None
    /\ sub_seq_batch = None
    /\ trims = <<>>

\* sub_seq_batch = trim_batch(b, trim_start, trim_end) with 0 <= trim_start
\* <= trim_end, for b the collated batch or the result of the call before;
\* trims lists the calls
TrimFurther ==
    /\ pc \in {"collated", "chained"}
    /\ Len(trims) < MaxTrims
    /\ \E start \in Offsets, end \in Offsets :
          /\ start <= end
          /\ sub_seq_batch' = trim_batch(IF pc = "collated" THEN batch ELSE sub_seq_batch,
                                         start, end)
          /\ trims' = Append(trims, <<start, end>>)
    /\ pc' = "chained"
    /\ UNCHANGED <<taskVars, options, buildVars, task, seq_batch, batch>>

NextTrim ==
    \/ CollateBatch
    \/ TrimFurther

SpecTrim == InitTrim /\ [][NextTrim]_vars

\* row i of the mask is sequence_lengths[i] ones and then zeros, and the
\* length is within the width of the batch
MaskAgrees(b) ==
    \A i \in 1..Len(b.attention_mask) :
        LET row == b.attention_mask[i]
            l == b.sequence_lengths[i]
        IN  /\ 0 <= l
            /\ l <= Len(row)
            /\ Len(b.token_ids[i]) = Len(row)
            /\ \A j \in 1..Len(row) : row[j] = (IF j <= l THEN 1 ELSE 0)

(* C22: in the batch the Collator produces and in the result of every
   further trim_batch call with 0 <= start <= end, for every row i the
   attention_mask row is exactly sequence_lengths[i] ones followed by zeros,
   and 0 <= sequence_lengths[i] <= the width of the sequence axis. *)
C22_MaskMatchesLengths ==
    /\ pc = "collated" => MaskAgrees(batch)
    /\ pc = "chained" => MaskAgrees(sub_seq_batch)

\* two trims that each cut columns off on the left, of a batch with a padded
\* row: the short row is all padding by then, the long one still has tokens
C22_Witness ==
    /\ pc = "chained"
    /\ Len(trims) = 2
    /\ trims[1][1] > 0
    /\ trims[2][1] > 0
    /\ \E i, k \in 1..Len(seq_batch) :
          /\ sub_seq_batch.sequence_lengths[i] = 0
          /\ Len(sub_seq_batch.attention_mask[i]) >= 1
          /\ sub_seq_batch.sequence_lengths[k] >= 1


-----------------------------------------------------------------------------
(* AnswerScoringDataset.__getitem__: where the examples come from *)

\* how many entries of a list are e
Occurrences(list, e) == Cardinality({k \in 1..Len(list) : list[k] = e})

\* the entries of the bank of the sample's problem with a grade
BankOfGrade(grade) ==
    IF Answer.meta.problem_id \in DOMAIN example_bank
    THEN example_bank[Answer.meta.problem_id][grade]
    ELSE <<>>

(* C23: for every index and every outcome of random.sample and
   random.shuffle, every example block of the returned sequence is the block
   of a candidate, and every candidate is an entry of the example bank of the
   sample's own problem_id, under its own grade, whose problem_log_id differs
   from the sample's; no entry of the bank is a candidate more often than the
   bank lists it, so none is included twice; and at most SampleSize (5)
   examples of one grade are candidates. *)
C23_ExamplesOfOwnProblem ==
    pc = "fetched" =>
        /\ Len(example_sequences) <= Len(Candidates)
        /\ \A j \in 1..Len(example_sequences) :
              Channels(example_sequences[j]) = Joined(Block(Candidates[j]))
        /\ \A j \in 1..Len(Candidates) :
              LET e == Candidates[j]
              IN  /\ e.meta.problem_id = Answer.meta.problem_id
                  /\ e.meta.problem_log_id # Answer.meta.problem_log_id
                  /\ e.meta.label \in 0..(options.num_classes - 1)
                  /\ Occurrences(Candidates, e) <= Occurrences(BankOfGrade(e.meta.label), e)
        /\ \A grade \in 0..(options.num_classes - 1) :
              Cardinality({j \in 1..Len(Candidates) : Candidates[j].meta.label = grade})
                  <= SampleSize

\* the bank lists the sample's own answer and more than SampleSize examples
\* of one grade; an example block is in the sequence
C23_Witness ==
    /\ pc = "fetched"
    /\ Len(example_sequences) >= 1
    /\ \E grade \in 0..(options.num_classes - 1) :
          \E k \in 1..Len(BankOfGrade(grade)) :
              BankOfGrade(grade)[k].meta.problem_log_id = Answer.meta.problem_log_id
    /\ \E grade \in 0..(options.num_classes - 1) :
          /\ Len(BankOfGrade(grade)) > SampleSize
          /\ Cardinality({j \in 1..Len(Candidates) : Candidates[j].meta.label = grade})
                 = SampleSize

=============================================================================
